---- MODULE Spec2Model ----
(***************************************************************************)
(* A model of the AuraOps orchestration core (backend/app/services):       *)
(* compose ordering and deployment, the deployment dispatcher, the static  *)
(* build pipeline, the reverse-proxy reload protocol and the certificate   *)
(* lifecycle.  Every component has its own specification over the shared   *)
(* variables; a component that a specification does not exercise stays in  *)
(* its initial state.                                                      *)
(***************************************************************************)
EXTENDS Integers, Sequences, FiniteSets, TLC

VARIABLES
    dependencies,   \* topological_sort: its argument, a dict kept in insertion order
    sort_result,    \* topological_sort: what the call produced
    domain,         \* a Domain row: hostname and TLS state
    now,            \* the clock read by datetime.utcnow(), in ticks
    domains,        \* the domains table as the sweep's database session sees it
    ssl_call,       \* the last SSLService call: operation, tool outcome, return value, domain before it, clock at its start
    project,        \* the Project row handed to the services
    containers,     \* the container runtime: container name -> "absent" | "running" | "exited"
    networks,       \* the container runtime: the networks that exist (name, copy, label)
    volumes,        \* the container runtime: the volumes that exist (name, label)
    conf,           \* the proxy's conf.d file of the project: "absent" or its content
    pc,             \* position of the running operation ("idle" before the first, "done" after one)
    caller,         \* "direct", or "dispatcher" when DockerService.deploy_project made the call
    ops,            \* the external calls the running (or last) invocation has made, in order
    result,         \* what the last finished invocation gave its caller
    sret,           \* what a strategy gave the dispatcher (its return value or its exception)
    invoked,        \* the strategies the dispatcher has invoked in this invocation, in order
    loc,            \* local variables of the running operation
    handler,        \* the API request handler in progress around the operation ("none" without one)
    credentials,    \* secrets: how many the generator has produced, and the ones deployments ran with
    instances,      \* concurrent requests: every container created under the app name, by id
    threads,        \* concurrent requests: operation, position and locals of each request
    background_tasks, \* the tasks that request handlers handed to BackgroundTasks, oldest first
    conf_dir,       \* the proxy's conf.d directory as nginx -t sees it: project id -> "absent" | "valid" | "broken"
    namespace       \* the runtime's names across projects: the resources that exist, each with the (kind, project id, name) that created it

sortVars == <<dependencies, sort_result>>
sslVars == <<domain, now, ssl_call, domains>>
runtimeVars == <<containers, networks, volumes, conf>>
callVars == <<pc, caller, ops, result, sret, invoked, loc>>
raceVars == <<instances, threads, background_tasks, conf_dir, namespace>>
apiVars == <<handler, credentials, raceVars>>
deployVars == <<project, containers, networks, volumes, conf, pc, caller, ops, result, sret, invoked, loc,
                handler, credentials, raceVars>>

vars == <<dependencies, sort_result, domain, now, ssl_call, domains, project, containers, networks,
          volumes, conf, pc, caller, ops, result, sret, invoked, loc, handler, credentials,
          instances, threads, background_tasks, conf_dir, namespace>>

(***************************************************************************)
(* Generic helpers                                                         *)
(***************************************************************************)
Range(s) == {s[i] : i \in 1..Len(s)}

\* x in a Python list
InList(x, s) == \E i \in 1..Len(s) : s[i] = x

\* index of the first occurrence of x in s (0 when absent)
IndexOf(x, s) == IF InList(x, s) THEN CHOOSE i \in 1..Len(s) : s[i] = x /\ \A j \in 1..(i-1) : s[j] # x ELSE 0

\* the sequences that list every element of S exactly once
Permutations_(S) == {q \in [1..Cardinality(S) -> S] : \A i, j \in 1..Cardinality(S) : q[i] = q[j] => i = j}

\* the sub-sequence of s whose elements satisfy membership in S, order kept
RECURSIVE FilterIn(_, _)
FilterIn(s, S) ==
    IF s = <<>> THEN <<>>
    ELSE IF Head(s) \in S THEN <<Head(s)>> \o FilterIn(Tail(s), S)
    ELSE FilterIn(Tail(s), S)

(***************************************************************************)
(* ComposeService.topological_sort (compose_service.py 72-106)             *)
(***************************************************************************)
\* service names that manifests of the model use
ServiceNames == {"A", "B", "C"}

\* bound: the total number of dependency entries of a dependency map
MaxEdges == 3

\* dependency lists (Python lists: ordered, repetitions allowed)
DepLists(n) == UNION {[1..k -> ServiceNames] : k \in 0..n}

\* the dependency maps over the key order q with at most n entries in all
RECURSIVE MapsOver(_, _)
MapsOver(q, n) ==
    IF q = <<>> THEN {<<>>}
    ELSE UNION {{<<[name |-> Head(q), deps |-> l]>> \o rest : rest \in MapsOver(Tail(q), n - Len(l))} : l \in DepLists(n)}

KeyOrders == UNION {Permutations_(S) : S \in SUBSET ServiceNames}

DependencyMaps == UNION {MapsOver(q, MaxEdges) : q \in KeyOrders}

Keys(deps) == {deps[i].name : i \in 1..Len(deps)}

\* all_services (lines 80-82): the keys and every referenced target
AllServices(deps) == Keys(deps) \cup UNION {Range(deps[i].deps) : i \in 1..Len(deps)}

\* number of occurrences of x in the list s
RECURSIVE Count(_, _)
Count(x, s) == IF s = <<>> THEN 0 ELSE (IF Head(s) = x THEN 1 ELSE 0) + Count(x, Tail(s))

RECURSIVE SumCount(_, _, _)
SumCount(x, deps, i) == IF i > Len(deps) THEN 0 ELSE Count(x, deps[i].deps) + SumCount(x, deps, i + 1)

\* in_degree (lines 85-88): one increment per occurrence of a service in a deps list
InDegree(deps) == [s \in AllServices(deps) |-> SumCount(s, deps, 1)]

\* lines 97-101: the for loop over dependencies.items() after `service` was popped;
\* st = [in_degree, queue]
RECURSIVE Relax(_, _, _, _)
Relax(service, deps, i, st) ==
    IF i > Len(deps) THEN st
    ELSE IF InList(service, deps[i].deps)
         THEN LET s == deps[i].name
                  d == st.in_degree[s] - 1
                  deg == [st.in_degree EXCEPT ![s] = d]
              IN Relax(service, deps, i + 1,
                       [in_degree |-> deg,
                        queue |-> IF d = 0 THEN Append(st.queue, s) ELSE st.queue])
         ELSE Relax(service, deps, i + 1, st)

\* lines 93-101: the while loop
RECURSIVE Drain(_, _, _)
Drain(deps, st, sorted_services) ==
    IF st.queue = <<>> THEN sorted_services
    ELSE LET service == Head(st.queue)
         IN Drain(deps,
                  Relax(service, deps, 1, [in_degree |-> st.in_degree, queue |-> Tail(st.queue)]),
                  Append(sorted_services, service))

\* a sort that returns what it ordered without the length check of lines 103-104
topological_sort_unchecked(deps, iter) ==
    LET in_degree == InDegree(deps)
        zero == {s \in AllServices(deps) : in_degree[s] = 0}
        queue == FilterIn(iter, zero)
    IN [raised |-> FALSE, order |-> Drain(deps, [in_degree |-> in_degree, queue |-> queue], <<>>)]

\* topological_sort; iter is the order in which Python iterates the set all_services
\* (line 90), which for strings depends on the process's hash seed
topological_sort(deps, iter) ==
    LET in_degree == InDegree(deps)
        zero == {s \in AllServices(deps) : in_degree[s] = 0}
        queue == FilterIn(iter, zero)
        sorted_services == Drain(deps, [in_degree |-> in_degree, queue |-> queue], <<>>)
    IN IF Len(sorted_services) # Cardinality(AllServices(deps))
       THEN [raised |-> TRUE, order |-> <<>>]
       ELSE [raised |-> FALSE, order |-> sorted_services]

NoSort == [called |-> FALSE, raised |-> FALSE, order |-> <<>>]


\* one call of topological_sort on the chosen map
TopologicalSort ==
    /\ ~sort_result.called
    /\ \E iter \in Permutations_(AllServices(dependencies)) :
          LET r == topological_sort(dependencies, iter)
          IN sort_result' = [called |-> TRUE, raised |-> r.raised, order |-> r.order]
    /\ UNCHANGED dependencies
    /\ UNCHANGED <<sslVars, deployVars>>


(***************************************************************************)
(* SSLService (ssl_service.py) on a Domain row (models/domain.py)          *)
(***************************************************************************)
\* hostnames as character sequences, so that startswith("*.") is computed
Hostnames == {<<"a", ".", "c">>, <<"*", ".", "c">>, <<"*", "a", ".", "c">>}

\* str.startswith
StartsWith(s, prefix) == Len(s) >= Len(prefix) /\ SubSeq(s, 1, Len(prefix)) = prefix

\* a DateTime column holding NULL / None
NoTime == -1

\* ticks of the clock per day
TicksPerDay == 2

\* timedelta(days=90) at ssl_service.py lines 50 and 76
ValidityDays == 90

\* bound: the clock stops advancing here
MaxTime == 2

\* how far the clock can move between two reads of datetime.utcnow() in one call
ClockDrift == {0, 1}

\* what subprocess.run(["certbot", ...]) can do: return code 0, another code, or raise
ToolOutcomes == {"zero", "nonzero", "raise"}

NoCall == [op |-> "none", tool |-> "none", ret |-> FALSE, pre |-> <<>>, at |-> 0]

\* a Domain as created by create_domain (domains.py 58-63): TLS state none
NewDomain(h) == [hostname |-> h, ssl_enabled |-> FALSE, ssl_issued_at |-> NoTime, ssl_expires_at |-> NoTime]

\* the domain of a specification that makes no SSLService call
IdleDomain == NewDomain(<<"a", ".", "c">>)
\* the literal 30 of Domain.needs_renewal (models/domain.py line 44)
NeedsRenewalDays == 30

\* timedelta.days of a difference of two datetimes: whole days, rounded down
TimedeltaDays(ticks) == ticks \div TicksPerDay

\* Domain.ssl_valid (models/domain.py 31-36) read at time t
ssl_valid(d, t) ==
    IF ~d.ssl_enabled \/ d.ssl_expires_at = NoTime THEN FALSE
    ELSE t < d.ssl_expires_at

\* Domain.needs_renewal (models/domain.py 38-44) read at time t
needs_renewal(d, t) ==
    IF d.ssl_expires_at = NoTime THEN FALSE
    ELSE TimedeltaDays(d.ssl_expires_at - t) <= NeedsRenewalDays


\* time passes between calls
Tick ==
    /\ now < MaxTime
    /\ now' = now + 1
    /\ UNCHANGED <<domain, ssl_call>>
    /\ UNCHANGED <<sortVars, deployVars, domains>>

\* the wildcard test written as an equality with "*." instead of a prefix test
is_wildcard_equality(d) == d.hostname = <<"*", ".">>

\* issue_certificate lines 23-28: the wildcard test
is_wildcard(d) == StartsWith(d.hostname, <<"*", ".">>)

\* issue_certificate (lines 14-59); tool is drawn only when certbot is run
IssueCertificate ==
    IF is_wildcard(domain)
    THEN /\ ssl_call' = [op |-> "issue", tool |-> "none", ret |-> FALSE, pre |-> domain, at |-> now]
         /\ UNCHANGED <<domain, now>>
         /\ UNCHANGED <<sortVars, deployVars, domains>>
    ELSE \E tool \in ToolOutcomes, drift \in ClockDrift :
         /\ now + drift <= MaxTime
         /\ IF tool = "zero"
            THEN /\ domain' = [domain EXCEPT !.ssl_enabled = TRUE,
                                             !.ssl_issued_at = now,
                                             !.ssl_expires_at = (now + drift) + ValidityDays * TicksPerDay]
                 /\ now' = now + drift
            ELSE UNCHANGED <<domain, now>>
         /\ ssl_call' = [op |-> "issue", tool |-> tool, ret |-> (tool = "zero"), pre |-> domain, at |-> now]
         /\ UNCHANGED <<sortVars, deployVars, domains>>

\* renew_certificate (lines 61-84)
RenewCertificate ==
    \E tool \in ToolOutcomes :
       /\ IF tool = "zero"
          THEN domain' = [domain EXCEPT !.ssl_expires_at = now + ValidityDays * TicksPerDay]
          ELSE UNCHANGED domain
       /\ ssl_call' = [op |-> "renew", tool |-> tool, ret |-> (tool = "zero"), pre |-> domain, at |-> now]
       /\ UNCHANGED now
       /\ UNCHANGED <<sortVars, deployVars, domains>>

\* a revoke that clears the TLS state before looking at the return code
RevokeClearsFirst ==
    \E tool \in ToolOutcomes :
       /\ domain' = [domain EXCEPT !.ssl_enabled = FALSE, !.ssl_issued_at = NoTime, !.ssl_expires_at = NoTime]
       /\ ssl_call' = [op |-> "revoke", tool |-> tool, ret |-> (tool = "zero"), pre |-> domain, at |-> now]
       /\ UNCHANGED now
       /\ UNCHANGED <<sortVars, deployVars, domains>>

\* revoke_certificate (lines 86-109)
RevokeCertificate ==
    \E tool \in ToolOutcomes :
       /\ IF tool = "zero"
          THEN domain' = [domain EXCEPT !.ssl_enabled = FALSE,
                                        !.ssl_issued_at = NoTime,
                                        !.ssl_expires_at = NoTime]
          ELSE UNCHANGED domain
       /\ ssl_call' = [op |-> "revoke", tool |-> tool, ret |-> (tool = "zero"), pre |-> domain, at |-> now]
       /\ UNCHANGED now
       /\ UNCHANGED <<sortVars, deployVars, domains>>

(***************************************************************************)
(* The project and the container runtime                                   *)
(***************************************************************************)
\* the id of the one project of the model
ProjectId == "1"

\* the deterministic names (docker_service.py 65, build_service.py 88,
\* service_templates.py 250, compose_service.py 122/131/148/172, nginx_service.py 257)
ProxyContainer == "auraops-proxy"
AppContainer == "auraops-app-" \o ProjectId
BuildContainer == "auraops-build-" \o ProjectId
ServiceContainer == "auraops-service-" \o ProjectId
project_prefix == "auraops-" \o ProjectId
ComposeContainer(service_name) == project_prefix \o "-" \o service_name
ComposeNetwork == project_prefix \o "-network"
ComposeVolume(volume_name) == project_prefix \o "-" \o volume_name

\* the label that compose sub-resources are created with (compose_service.py 136, 152,
\* 181), and the absence of labels (service_templates.py 274)
ProjectLabel == "auraops.project_id=" \o ProjectId
NoLabel == ""

\* the runtime's networks and volumes.  A volume is identified by its name; a network is
\* identified by an id, its name being an alias that two networks may share
Network(name, copy, label) == [name |-> name, copy |-> copy, label |-> label]
Volume(name, label) == [name |-> name, label |-> label]
NetworksNamed(name) == {n \in networks : n.name = name}
VolumeNames == {v.name : v \in volumes}

\* the most networks of one name that the model lets the runtime hold
MaxNetworks == 2

\* the answers of the runtime to networks.create(name=...) without check_duplicate
\* (compose_service.py 133-137): an engine that checks names answers "already exists",
\* an engine that does not check creates a second network of the name
NetworkCreateOutcomes(name) ==
    IF NetworksNamed(name) = {} THEN {"ok", "error"}
    ELSE {"exists"} \cup (IF Cardinality(NetworksNamed(name)) < MaxNetworks THEN {"ok"} ELSE {})

\* the service and volume names that the manifests of the model declare
ComposeServiceNames == {"A", "B"}
ComposeVolumeNames == {"data"}

ContainerNames == {ProxyContainer, AppContainer, BuildContainer, ServiceContainer}
                     \cup {ComposeContainer(n) : n \in ComposeServiceNames}

ContainerStates == {"absent", "running", "exited"}

NoContainers == [n \in ContainerNames |-> "absent"]

\* one external call and how it ended
Op(call, target, arg, out) == [call |-> call, target |-> target, arg |-> arg, out |-> out]

\* Project.deployment_type as the dispatcher spells it (docker_service.py 26-34)
RecognisedTypes == {"static_build", "docker_image", "dockerfile", "docker_compose", "service"}

NoManifest == [yaml_ok |-> TRUE, has_services |-> FALSE, services |-> <<>>, volumes |-> <<>>]

\* a Project row as create_project stores it (projects.py 98-115)
NewProject(t, m) == [id |-> ProjectId, deployment_type |-> t, status |-> "stopped",
                     build_logs |-> <<>>, compose_file |-> m, repo_url |-> "", env_vars |-> {}]

\* Project.is_static (models/project.py 62-65)
is_static(p) == p.deployment_type = "static_build"

\* what an invocation gave its caller: nothing yet, a value, or an exception; keys are
\* the keys of a returned dict (none for a returned bool)
NoResult == [kind |-> "none", status |-> "none", keys |-> {}]
Returned(status) == [kind |-> "return", status |-> status, keys |-> {}]
Result(status, keys) == [kind |-> "return", status |-> status, keys |-> {"status", "message"} \cup keys]
Raised == [kind |-> "raise", status |-> "none", keys |-> {}]
NoLocals == [op |-> "none"]

\* no secret generated, no deployment run yet
\* no request is being served concurrently
NoThreads == <<>>

NoCredentials == [generated |-> 0, used |-> <<>>]

\* an operation can be entered when none is running
Ready == pc \in {"idle", "done"} /\ handler = "none"

(***************************************************************************)
(* NginxService (nginx_service.py)                                         *)
(***************************************************************************)
\* Optional[Domain] = None
NoDomain == [hostname |-> <<>>, ssl_enabled |-> FALSE, ssl_issued_at |-> NoTime, ssl_expires_at |-> NoTime]

NoConf == [shape |-> "absent", server_name |-> <<>>, tls |-> FALSE, redirect |-> FALSE, target |-> ""]

DefaultServerName == <<"app-", ProjectId, ".localhost">>

\* generate_config (lines 16-162): the rendered file, by its directives
generate_config(p, d) ==
    [shape |-> IF is_static(p) THEN "static" ELSE "proxy",
     server_name |-> IF d # NoDomain THEN d.hostname ELSE DefaultServerName,
     tls |-> (d # NoDomain /\ d.ssl_enabled),
     redirect |-> (d # NoDomain /\ d.ssl_enabled),
     target |-> IF is_static(p) THEN "/var/www/project-" \o p.id ELSE "auraops-app-" \o p.id]
\* the names under which a deploy of project p starts its containers, by deployment type
\* (docker_service.py 65 and 100, service_templates.py 250, compose_service.py 172)
deploy_container_names(p) ==
    CASE p.deployment_type \in {"docker_image", "dockerfile"} -> {"auraops-app-" \o p.id}
      [] p.deployment_type = "service" -> {"auraops-service-" \o p.id}
      [] p.deployment_type = "docker_compose" ->
            {("auraops-" \o p.id) \o "-" \o n : n \in ComposeServiceNames}
      [] OTHER -> {}


\* what exec_run can do on a running container: exit code 0, another exit code, or raise
ExecOutcomes == {"exit0", "exit1", "error"}

\* exec_run on a container that is not running raises
ExecOn(state, out) == IF state = "running" THEN out ELSE "error"

\* a reload that signals the proxy whatever the exit code of nginx -t was
reload_unchecked(proxy, client_ok, test, rel) ==
    IF ~client_ok THEN [ret |-> FALSE, ops |-> <<Op("from_env", "docker", "", "error")>>]
    ELSE IF proxy = "absent"
    THEN [ret |-> FALSE, ops |-> <<Op("from_env", "docker", "", "ok"), Op("containers.get", ProxyContainer, "", "notfound")>>]
    ELSE LET t == ExecOn(proxy, test)
             r == ExecOn(proxy, rel)
             head == <<Op("from_env", "docker", "", "ok"), Op("containers.get", ProxyContainer, "", "ok"),
                       Op("exec_run", ProxyContainer, "nginx -t", t)>>
         IN IF t = "error" THEN [ret |-> FALSE, ops |-> head]
            ELSE [ret |-> (r = "exit0"), ops |-> Append(head, Op("exec_run", ProxyContainer, "nginx -s reload", r))]

\* reload (lines 250-281); proxy is the state of the auraops-proxy container, the other
\* arguments say what the environment does to the calls that are made
reload(proxy, client_ok, test, rel) ==
    IF ~client_ok THEN [ret |-> FALSE, ops |-> <<Op("from_env", "docker", "", "error")>>]
    ELSE IF proxy = "absent"
    THEN [ret |-> FALSE, ops |-> <<Op("from_env", "docker", "", "ok"), Op("containers.get", ProxyContainer, "", "notfound")>>]
    ELSE LET t == ExecOn(proxy, test)
             r == ExecOn(proxy, rel)
             head == <<Op("from_env", "docker", "", "ok"), Op("containers.get", ProxyContainer, "", "ok"),
                       Op("exec_run", ProxyContainer, "nginx -t", t)>>
         IN IF t # "exit0" THEN [ret |-> FALSE, ops |-> head]
            ELSE [ret |-> (r = "exit0"), ops |-> Append(head, Op("exec_run", ProxyContainer, "nginx -s reload", r))]

\* what the environment does to the calls of one write_config or delete_config
ConfigEnvs == [file_ok : BOOLEAN, client_ok : BOOLEAN, test : ExecOutcomes, rel : ExecOutcomes]

ConfPath == "/etc/nginx/conf.d/project-" \o ProjectId \o ".conf"

\* a write that patches the file: a TLS block that is there stays
write_config_patching(p, d, cur, proxy, env) ==
    IF ~env.file_ok
    THEN [ret |-> FALSE, conf |-> cur, ops |-> <<Op("open", ConfPath, "w", "error")>>]
    ELSE LET r == reload(proxy, env.client_ok, env.test, env.rel)
         IN [ret |-> TRUE,
             conf |-> [generate_config(p, d) EXCEPT !.tls = @ \/ cur.tls],
             ops |-> <<Op("open", ConfPath, "w", "ok")>> \o r.ops]

\* write_config (lines 164-183): cur is the file before the call
write_config(p, d, cur, proxy, env) ==
    IF ~env.file_ok
    THEN [ret |-> FALSE, conf |-> cur, ops |-> <<Op("open", ConfPath, "w", "error")>>]
    ELSE LET r == reload(proxy, env.client_ok, env.test, env.rel)
         IN [ret |-> TRUE, conf |-> generate_config(p, d), ops |-> <<Op("open", ConfPath, "w", "ok")>> \o r.ops]

\* delete_config (lines 185-201)
delete_config(cur, proxy, env) ==
    IF ~env.file_ok
    THEN [ret |-> FALSE, conf |-> cur, ops |-> <<Op("rm -f", ConfPath, "", "error")>>]
    ELSE LET r == reload(proxy, env.client_ok, env.test, env.rel)
         IN [ret |-> TRUE, conf |-> NoConf, ops |-> <<Op("rm -f", ConfPath, "", "ok")>> \o r.ops]

BoolStatus(b) == IF b THEN "True" ELSE "False"

\* a call of NginxService.reload()
Reload ==
    /\ Ready
    /\ \E client_ok \in BOOLEAN, test \in ExecOutcomes, rel \in ExecOutcomes :
          LET r == reload(containers[ProxyContainer], client_ok, test, rel)
          IN /\ ops' = r.ops
             /\ result' = Returned(BoolStatus(r.ret))
    /\ pc' = "done"
    /\ caller' = "direct"
    /\ loc' = [op |-> "reload"]
    /\ UNCHANGED <<project, containers, networks, volumes, conf, sret, invoked>>
    /\ UNCHANGED <<sortVars, sslVars, apiVars>>

\* a call of NginxService.write_config(project) or write_config(project, domain)
WriteConfig ==
    /\ Ready
    /\ pc' = "done"
    /\ caller' = "direct"
    /\ \E d \in {NoDomain, domain}, env \in ConfigEnvs :
          LET w == write_config(project, d, conf, containers[ProxyContainer], env)
          IN /\ ops' = w.ops
             /\ conf' = w.conf
             /\ result' = Returned(BoolStatus(w.ret))
             /\ loc' = [op |-> "write_config", domain |-> d, before |-> conf]
    /\ UNCHANGED <<project, containers, networks, volumes, sret, invoked>>
    /\ UNCHANGED <<sortVars, sslVars, apiVars>>

\* a call of NginxService.delete_config(project.id)
DeleteConfig ==
    /\ Ready
    /\ \E env \in ConfigEnvs :
          LET w == delete_config(conf, containers[ProxyContainer], env)
          IN /\ ops' = w.ops
             /\ conf' = w.conf
             /\ result' = Returned(BoolStatus(w.ret))
    /\ pc' = "done"
    /\ caller' = "direct"
    /\ loc' = [op |-> "delete_config"]
    /\ UNCHANGED <<project, containers, networks, volumes, sret, invoked>>
    /\ UNCHANGED <<sortVars, sslVars, apiVars>>

(***************************************************************************)
(* Calls and returns                                                       *)
(***************************************************************************)
\* an operation ends: its value (or exception) goes to the dispatcher when the
\* dispatcher called it, and to the outside caller otherwise
Finish(r) ==
    IF caller = "dispatcher"
    THEN /\ sret' = r
         /\ pc' = "d_return"
         /\ UNCHANGED result
    ELSE /\ result' = r
         /\ pc' = "done"
         /\ UNCHANGED sret

\* container.stop() that succeeded
Stopped(state) == IF state = "running" THEN "exited" ELSE state

\* what client.containers.run(name=n, detach=True) can do when the name is free:
\* start the container, fail before creating it, or create it and fail to start it
RunOutcomes == {"ok", "error", "start_failed"}

\* a runtime that would let two containers share a name
RunOnAnyName(state, out) == out

\* client.containers.run: the outcome, given the state of the name; a taken name is a conflict
RunOn(state, out) == IF state = "absent" THEN out ELSE "error"

\* the state of the name after client.containers.run
AfterRun(state, out) ==
    IF state # "absent" THEN state
    ELSE IF out = "ok" THEN "running"
    ELSE IF out = "start_failed" THEN "exited"
    ELSE "absent"

(***************************************************************************)
(* BuildService.build_static_site (build_service.py 56-205)                *)
(***************************************************************************)
Log(tag, about) == [tag |-> tag, about |-> about]

BuildLocals == [op |-> "build_static_site", build_logs |-> <<>>, acquired |-> FALSE]

\* line 71: client = docker.from_env(), before the try
BuildClient ==
    /\ pc = "b_client"
    /\ \E ok \in BOOLEAN :
          IF ok
          THEN /\ ops' = Append(ops, Op("from_env", "docker", "", "ok"))
               /\ pc' = "b_run"
               /\ UNCHANGED <<result, sret>>
          ELSE /\ ops' = Append(ops, Op("from_env", "docker", "", "error"))
               /\ Finish(Raised)
    /\ UNCHANGED <<project, containers, networks, volumes, conf, caller, invoked, loc>>
    /\ UNCHANGED <<sortVars, sslVars, apiVars>>

\* lines 74-94: status building, then the build container is created and started
BuildRun ==
    /\ pc = "b_run"
    /\ project' = [project EXCEPT !.status = "building"]
    /\ \E o \in RunOutcomes :
          LET out == RunOn(containers[BuildContainer], o)
              logs == loc.build_logs \o <<Log("INFO", "start"), Log("INFO", "container")>>
          IN /\ containers' = [containers EXCEPT ![BuildContainer] = AfterRun(@, o)]
             /\ ops' = Append(ops, Op("containers.run", BuildContainer, "node:20-alpine", out))
             /\ IF out = "ok"
                THEN /\ loc' = [loc EXCEPT !.build_logs = Append(logs, Log("INFO", "container")), !.acquired = TRUE]
                     /\ pc' = "b_clone"
                ELSE /\ loc' = [loc EXCEPT !.build_logs = logs]
                     /\ pc' = "b_except"
    /\ UNCHANGED <<networks, volumes, conf, caller, result, sret, invoked>>
    /\ UNCHANGED <<sortVars, sslVars, apiVars>>

\* lines 96-107: the fetch; its exit code is checked
BuildClone ==
    /\ pc = "b_clone"
    /\ \E o \in ExecOutcomes :
          LET out == ExecOn(containers[BuildContainer], o)
              logs == Append(loc.build_logs, Log("INFO", "fetch"))
          IN /\ ops' = Append(ops, Op("exec_run", BuildContainer, "fetch", out))
             /\ IF out = "exit0"
                THEN /\ loc' = [loc EXCEPT !.build_logs = Append(logs, Log("SUCCESS", "fetch"))]
                     /\ pc' = "b_install"
                ELSE IF out = "exit1"
                THEN /\ loc' = [loc EXCEPT !.build_logs = Append(logs, Log("ERROR", "fetch"))]
                     /\ pc' = "b_except"
                ELSE /\ loc' = [loc EXCEPT !.build_logs = logs]
                     /\ pc' = "b_except"
    /\ UNCHANGED <<project, containers, networks, volumes, conf, caller, result, sret, invoked>>
    /\ UNCHANGED <<sortVars, sslVars, apiVars>>

\* lines 113-123 and 133-143: exec_run(..., stream=True) and the loop over its output;
\* the exit code of the command is not looked at
StreamedStep(step, next) ==
    \E o \in ExecOutcomes, has_output \in BOOLEAN :
          LET out == ExecOn(containers[BuildContainer], o)
              logs == Append(loc.build_logs, Log("INFO", step))
              lines == IF has_output THEN <<Log("OUTPUT", step)>> ELSE <<>>
          IN /\ ops' = Append(ops, Op("exec_run", BuildContainer, step, out))
             /\ IF out = "error"
                THEN /\ loc' = [loc EXCEPT !.build_logs = logs]
                     /\ pc' = "b_except"
                ELSE /\ loc' = [loc EXCEPT !.build_logs = (logs \o lines) \o <<Log("SUCCESS", step)>>]
                     /\ pc' = next

\* lines 109-123: install
BuildInstall ==
    /\ pc = "b_install"
    /\ StreamedStep("install", "b_build")
    /\ UNCHANGED <<project, containers, networks, volumes, conf, caller, result, sret, invoked>>
    /\ UNCHANGED <<sortVars, sslVars, apiVars>>

\* lines 125-143: build
BuildBuild ==
    /\ pc = "b_build"
    /\ StreamedStep("build", "b_copy")
    /\ UNCHANGED <<project, containers, networks, volumes, conf, caller, result, sret, invoked>>
    /\ UNCHANGED <<sortVars, sslVars, apiVars>>

\* lines 145-159: os.makedirs, then os.system("docker cp ..."), whose status is dropped
BuildCopy ==
    /\ pc = "b_copy"
    /\ \E dir_ok \in BOOLEAN, cp \in {"exit0", "exit1"} :
          LET logs == Append(loc.build_logs, Log("INFO", "copy"))
          IN IF dir_ok
             THEN /\ ops' = ops \o <<Op("os.makedirs", "/var/www/project-" \o ProjectId, "", "ok"),
                                     Op("os.system", BuildContainer, "copy", cp)>>
                  /\ loc' = [loc EXCEPT !.build_logs = Append(logs, Log("SUCCESS", "copy"))]
                  /\ pc' = "b_cleanup"
             ELSE /\ ops' = Append(ops, Op("os.makedirs", "/var/www/project-" \o ProjectId, "", "error"))
                  /\ loc' = [loc EXCEPT !.build_logs = logs]
                  /\ pc' = "b_except"
    /\ UNCHANGED <<project, containers, networks, volumes, conf, caller, result, sret, invoked>>
    /\ UNCHANGED <<sortVars, sslVars, apiVars>>

\* container.stop() then container.remove(): the state of the name and the calls made
\* (a failed stop raises, so remove is not called)
Teardown(state, stop_ok, remove_ok) ==
    IF ~stop_ok
    THEN [state |-> state, ok |-> FALSE, ops |-> <<Op("stop", BuildContainer, "", "error")>>]
    ELSE IF ~remove_ok
    THEN [state |-> Stopped(state), ok |-> FALSE,
          ops |-> <<Op("stop", BuildContainer, "", "ok"), Op("remove", BuildContainer, "", "error")>>]
    ELSE [state |-> "absent", ok |-> TRUE,
          ops |-> <<Op("stop", BuildContainer, "", "ok"), Op("remove", BuildContainer, "", "ok")>>]

\* lines 161-165: the teardown of the success path
BuildCleanup ==
    /\ pc = "b_cleanup"
    /\ \E stop_ok \in BOOLEAN, remove_ok \in BOOLEAN :
          LET t == Teardown(containers[BuildContainer], stop_ok, remove_ok)
              logs == Append(loc.build_logs, Log("INFO", "cleanup"))
          IN /\ containers' = [containers EXCEPT ![BuildContainer] = t.state]
             /\ ops' = ops \o t.ops
             /\ IF t.ok
                THEN /\ loc' = [loc EXCEPT !.build_logs = Append(logs, Log("SUCCESS", "cleanup"))]
                     /\ pc' = "b_nginx"
                ELSE /\ loc' = [loc EXCEPT !.build_logs = logs]
                     /\ pc' = "b_except"
    /\ UNCHANGED <<project, networks, volumes, conf, caller, result, sret, invoked>>
    /\ UNCHANGED <<sortVars, sslVars, apiVars>>

\* lines 167-183: the static proxy configuration is written, the project is marked
\* running and success is returned
BuildNginx ==
    /\ pc = "b_nginx"
    /\ \E env \in ConfigEnvs :
          LET w == write_config(project, NoDomain, conf, containers[ProxyContainer], env)
              logs == loc.build_logs \o <<Log("INFO", "nginx"), Log("SUCCESS", "nginx")>>
          IN /\ ops' = ops \o w.ops
             /\ conf' = w.conf
             /\ loc' = [loc EXCEPT !.build_logs = logs]
             /\ project' = [project EXCEPT !.build_logs = logs, !.status = "running"]
    /\ Finish(Result("success", {"output_dir", "logs"}))
    /\ UNCHANGED <<containers, networks, volumes, caller, invoked>>
    /\ UNCHANGED <<sortVars, sslVars, apiVars>>

\* a handler that returns failed without the cleanup of lines 193-199
BuildExceptNoCleanup ==
    /\ pc = "b_except"
    /\ LET logs == Append(loc.build_logs, Log("ERROR", "build"))
       IN /\ loc' = [loc EXCEPT !.build_logs = logs]
          /\ project' = [project EXCEPT !.build_logs = logs, !.status = "failed"]
    /\ Finish(Result("failed", {"logs"}))
    /\ UNCHANGED <<containers, ops, networks, volumes, conf, caller, invoked>>
    /\ UNCHANGED <<sortVars, sslVars, apiVars>>

\* lines 185-205: the except branch: [ERROR] entry, status failed, best-effort removal
\* of the container found under the build name, failed returned
BuildExcept ==
    /\ pc = "b_except"
    /\ LET logs == Append(loc.build_logs, Log("ERROR", "build"))
       IN /\ loc' = [loc EXCEPT !.build_logs = logs]
          /\ project' = [project EXCEPT !.build_logs = logs, !.status = "failed"]
    /\ IF containers[BuildContainer] = "absent"
       THEN /\ ops' = Append(ops, Op("containers.get", BuildContainer, "", "notfound"))
            /\ UNCHANGED containers
       ELSE \E stop_ok \in BOOLEAN, remove_ok \in BOOLEAN :
               LET t == Teardown(containers[BuildContainer], stop_ok, remove_ok)
               IN /\ containers' = [containers EXCEPT ![BuildContainer] = t.state]
                  /\ ops' = (ops \o <<Op("containers.get", BuildContainer, "", "ok")>>) \o t.ops
    /\ Finish(Result("failed", {"logs"}))
    /\ UNCHANGED <<networks, volumes, conf, caller, invoked>>
    /\ UNCHANGED <<sortVars, sslVars, apiVars>>

\* a call of BuildService.build_static_site(project)
BuildStaticSite ==
    /\ Ready
    /\ pc' = "b_client"
    /\ caller' = "direct"
    /\ ops' = <<>>
    /\ loc' = BuildLocals
    /\ result' = NoResult
    /\ UNCHANGED <<project, containers, networks, volumes, conf, sret, invoked>>
    /\ UNCHANGED <<sortVars, sslVars, apiVars>>

BuildSteps ==
    \/ BuildClient \/ BuildRun \/ BuildClone \/ BuildInstall \/ BuildBuild
    \/ BuildCopy \/ BuildCleanup \/ BuildNginx \/ BuildExcept

(***************************************************************************)
(* Compose manifests (compose_service.py 14-70)                            *)
(***************************************************************************)
\* a manifest that is not valid YAML
BadYaml == [yaml_ok |-> FALSE, has_services |-> FALSE, services |-> <<>>, volumes |-> <<>>]

\* a service declares an image, a build context, or neither (lines 188-196)
ServiceKinds == {"image", "build", "none"}

\* entries of `links`, as strings: "service:alias" or just "service"
LinkStrings == {<<"A", ":", "d", "b">>, <<"B">>}

\* link.split(':')[0] (line 65)
RECURSIVE SplitHead(_)
SplitHead(s) == IF s = <<>> \/ Head(s) = ":" THEN <<>> ELSE <<Head(s)>> \o SplitHead(Tail(s))

\* the characters of a string put together again
RECURSIVE Join(_)
Join(s) == IF s = <<>> THEN "" ELSE Head(s) \o Join(Tail(s))

\* the service configs of the model: a kind, and at most one dependency entry,
\* given by depends_on or by links
ServiceConfigs(n) ==
    {[name |-> n, kind |-> k, depends_on |-> d, links |-> l] :
        k \in ServiceKinds,
        d \in {<<>>} \cup {<<t>> : t \in ComposeServiceNames},
        l \in {<<>>} \cup {<<t>> : t \in LinkStrings}}

ServiceLists ==
    UNION {{svcs \in [1..Len(q) -> UNION {ServiceConfigs(n) : n \in ComposeServiceNames}] :
               \A i \in 1..Len(q) : svcs[i].name = q[i] /\ (svcs[i].depends_on = <<>> \/ svcs[i].links = <<>>)} :
           q \in UNION {Permutations_(S) : S \in SUBSET ComposeServiceNames}}

\* project.compose_file: text that parses to services and volumes, text without a
\* services key, or text that is not YAML
Manifests ==
    {[yaml_ok |-> TRUE, has_services |-> TRUE, services |-> svcs, volumes |-> v] :
        svcs \in ServiceLists, v \in {<<>>} \cup {<<n>> : n \in ComposeVolumeNames}}
      \cup {NoManifest, BadYaml}

\* index of the service named n in the services dict (0 when it is not a key)
ServiceIndex(services, n) ==
    IF \E i \in 1..Len(services) : services[i].name = n
    THEN CHOOSE i \in 1..Len(services) : services[i].name = n
    ELSE 0

\* get_service_dependencies (lines 40-70)
get_service_dependencies(services) ==
    [i \in 1..Len(services) |->
        [name |-> services[i].name,
         deps |-> services[i].depends_on
                    \o [k \in 1..Len(services[i].links) |-> Join(SplitHead(services[i].links[k]))]]]

(***************************************************************************)
(* ComposeService.deploy_compose_project (compose_service.py 108-289)      *)
(***************************************************************************)
ComposeLocals == [op |-> "deploy_compose_project", services |-> <<>>, volume_names |-> <<>>,
                  vi |-> 1, created_volumes |-> <<>>, deploy_order |-> <<>>, i |-> 1,
                  deployed_containers |-> <<>>]

\* a call of ComposeService.deploy_compose_project(project)
DeployComposeProject ==
    /\ Ready
    /\ pc' = "c_client"
    /\ caller' = "direct"
    /\ ops' = <<>>
    /\ loc' = ComposeLocals
    /\ result' = NoResult
    /\ UNCHANGED <<project, containers, networks, volumes, conf, sret, invoked>>
    /\ UNCHANGED <<sortVars, sslVars, apiVars>>

\* line 121: client = docker.from_env(), before the try
ComposeClient ==
    /\ pc = "c_client"
    /\ \E ok \in BOOLEAN :
          IF ok
          THEN /\ ops' = Append(ops, Op("from_env", "docker", "", "ok"))
               /\ pc' = "c_parse"
               /\ UNCHANGED <<result, sret>>
          ELSE /\ ops' = Append(ops, Op("from_env", "docker", "", "error"))
               /\ Finish(Raised)
    /\ UNCHANGED <<project, containers, networks, volumes, conf, caller, invoked, loc>>
    /\ UNCHANGED <<sortVars, sslVars, apiVars>>

\* a parse that accepts any text and takes what it finds
ComposeParseLenient ==
    /\ pc = "c_parse"
    /\ loc' = [loc EXCEPT !.services = project.compose_file.services,
                          !.volume_names = project.compose_file.volumes]
    /\ pc' = "c_network"
    /\ UNCHANGED <<project, containers, networks, volumes, conf, caller, ops, result, sret, invoked>>
    /\ UNCHANGED <<sortVars, sslVars, apiVars>>

\* lines 125-128: parse_compose_file; ValueError for bad YAML or a missing services key
ComposeParse ==
    /\ pc = "c_parse"
    /\ LET m == project.compose_file
       IN IF m.yaml_ok /\ m.has_services
          THEN /\ loc' = [loc EXCEPT !.services = m.services, !.volume_names = m.volumes]
               /\ pc' = "c_network"
          ELSE /\ pc' = "c_except"
               /\ UNCHANGED loc
    /\ UNCHANGED <<project, containers, networks, volumes, conf, caller, ops, result, sret, invoked>>
    /\ UNCHANGED <<sortVars, sslVars, apiVars>>

\* lines 130-143: the project network is created, or fetched when it already exists
ComposeCreateNetwork ==
    /\ pc = "c_network"
    /\ \E out \in NetworkCreateOutcomes(ComposeNetwork) :
          CASE out = "exists" ->
                  \E ok \in BOOLEAN :
                     /\ ops' = ops \o <<Op("networks.create", ComposeNetwork, ProjectLabel, "exists"),
                                        Op("networks.get", ComposeNetwork, "", IF ok THEN "ok" ELSE "error")>>
                     /\ UNCHANGED networks
                     /\ pc' = IF ok THEN "c_volumes" ELSE "c_except"
            [] out = "ok" ->
                  /\ ops' = Append(ops, Op("networks.create", ComposeNetwork, ProjectLabel, "ok"))
                  /\ networks' = networks \cup
                        {Network(ComposeNetwork, Cardinality(NetworksNamed(ComposeNetwork)) + 1, ProjectLabel)}
                  /\ pc' = "c_volumes"
            [] out = "error" ->
                  /\ ops' = Append(ops, Op("networks.create", ComposeNetwork, ProjectLabel, "error"))
                  /\ UNCHANGED networks
                  /\ pc' = "c_except"
    /\ UNCHANGED <<project, containers, volumes, conf, caller, result, sret, invoked, loc>>
    /\ UNCHANGED <<sortVars, sslVars, apiVars>>

\* a volume created without the labels argument
CreatedVolumeNoLabel(full_volume_name) == Volume(full_volume_name, NoLabel)

\* lines 150-153: the volume that volumes.create(name=..., labels=...) makes
CreatedVolume(full_volume_name) == Volume(full_volume_name, ProjectLabel)

\* the answers of the runtime to volumes.create(name=...): a new volume or an error; for
\* a name that exists, the existing volume as it is, or an "already exists" error
VolumeCreateOutcomes(name) ==
    IF name \in VolumeNames THEN {"same", "exists"} ELSE {"ok", "error"}

\* lines 147-158: one iteration of the loop over the declared volumes
ComposeCreateVolume ==
    /\ pc = "c_volumes"
    /\ loc.vi <= Len(loc.volume_names)
    /\ LET full_volume_name == ComposeVolume(loc.volume_names[loc.vi])
       IN \E out \in VolumeCreateOutcomes(full_volume_name) :
             /\ ops' = Append(ops, Op("volumes.create", full_volume_name, ProjectLabel, out))
             /\ volumes' = IF out = "ok" THEN volumes \cup {CreatedVolume(full_volume_name)}
                           ELSE volumes
             /\ loc' = CASE out \in {"ok", "same"} ->
                               [loc EXCEPT !.vi = @ + 1, !.created_volumes = Append(@, full_volume_name)]
                         [] out = "exists" -> [loc EXCEPT !.vi = @ + 1]
                         [] out = "error" -> loc
             /\ pc' = IF out = "error" THEN "c_except" ELSE "c_volumes"
    /\ UNCHANGED <<project, containers, networks, conf, caller, result, sret, invoked>>
    /\ UNCHANGED <<sortVars, sslVars, apiVars>>

\* lines 160-162: the deploy order, after the volumes loop
ComposeOrder ==
    /\ pc = "c_volumes"
    /\ loc.vi > Len(loc.volume_names)
    /\ LET deps == get_service_dependencies(loc.services)
       IN \E iter \in Permutations_(AllServices(deps)) :
             LET r == topological_sort(deps, iter)
             IN IF r.raised
                THEN /\ pc' = "c_except"
                     /\ UNCHANGED loc
                ELSE /\ pc' = "c_service"
                     /\ loc' = [loc EXCEPT !.deploy_order = r.order]
    /\ UNCHANGED <<project, containers, networks, volumes, conf, caller, ops, result, sret, invoked>>
    /\ UNCHANGED <<sortVars, sslVars, apiVars>>

\* container.stop() then container.remove() on the container found under name: the
\* state of the name and the calls made (a failed stop raises, so remove is not called)
StopRemove(name, state, stop_ok, remove_ok) ==
    IF ~stop_ok
    THEN [state |-> state, ok |-> FALSE, ops |-> <<Op("stop", name, "", "error")>>]
    ELSE IF ~remove_ok
    THEN [state |-> Stopped(state), ok |-> FALSE,
          ops |-> <<Op("stop", name, "", "ok"), Op("remove", name, "", "error")>>]
    ELSE [state |-> "absent", ok |-> TRUE,
          ops |-> <<Op("stop", name, "", "ok"), Op("remove", name, "", "ok")>>]

\* try: get(name).stop().remove() except NotFound: pass (lines 257-263)
ReplaceOld(name, state, stop_ok, remove_ok) ==
    IF state = "absent"
    THEN [state |-> state, ok |-> TRUE, ops |-> <<Op("containers.get", name, "", "notfound")>>]
    ELSE LET t == StopRemove(name, state, stop_ok, remove_ok)
         IN [state |-> t.state, ok |-> t.ok, ops |-> <<Op("containers.get", name, "", "ok")>> \o t.ops]

\* the failures the runtime can answer a replacement with (none when nothing is found)
ReplaceEnvs(state) ==
    IF state = "absent" THEN {[stop_ok |-> TRUE, remove_ok |-> TRUE]}
    ELSE {[stop_ok |-> TRUE, remove_ok |-> TRUE], [stop_ok |-> TRUE, remove_ok |-> FALSE],
          [stop_ok |-> FALSE, remove_ok |-> TRUE]}

\* lines 167-272: one iteration of the loop over deploy_order
ComposeDeployService ==
    /\ pc = "c_service"
    /\ loc.i <= Len(loc.deploy_order)
    /\ LET service_name == loc.deploy_order[loc.i]
           k == ServiceIndex(loc.services, service_name)
           container_name == ComposeContainer(service_name)
       IN IF k = 0 \/ loc.services[k].kind # "image"
          THEN /\ loc' = [loc EXCEPT !.i = @ + 1]
               /\ pc' = "c_service"
               /\ UNCHANGED <<containers, ops>>
          ELSE \E e \in ReplaceEnvs(containers[container_name]), o \in RunOutcomes :
                  LET old == ReplaceOld(container_name, containers[container_name], e.stop_ok, e.remove_ok)
                      out == RunOn(old.state, o)
                  IN IF ~old.ok
                     THEN /\ containers' = [containers EXCEPT ![container_name] = old.state]
                          /\ ops' = ops \o old.ops
                          /\ pc' = "c_except"
                          /\ UNCHANGED loc
                     ELSE /\ containers' = [containers EXCEPT ![container_name] = AfterRun(old.state, o)]
                          /\ ops' = (ops \o old.ops) \o <<Op("containers.run", container_name, ProjectLabel, out)>>
                          /\ pc' = "c_service"
                          /\ loc' = [loc EXCEPT !.i = @ + 1,
                                                !.deployed_containers =
                                                    IF out = "ok" THEN Append(@, container_name) ELSE @]
    /\ UNCHANGED <<project, networks, volumes, conf, caller, result, sret, invoked>>
    /\ UNCHANGED <<sortVars, sslVars, apiVars>>

\* lines 274-282: success is returned after the loop
ComposeReturn ==
    /\ pc = "c_service"
    /\ loc.i > Len(loc.deploy_order)
    /\ Finish(Result("success", {"deployed_services", "network", "volumes"}))
    /\ UNCHANGED <<project, containers, networks, volumes, conf, caller, ops, invoked, loc>>
    /\ UNCHANGED <<sortVars, sslVars, apiVars>>

\* lines 284-289: any exception of the try becomes a failed result
ComposeExcept ==
    /\ pc = "c_except"
    /\ Finish(Result("failed", {}))
    /\ UNCHANGED <<project, containers, networks, volumes, conf, caller, ops, invoked, loc>>
    /\ UNCHANGED <<sortVars, sslVars, apiVars>>

ComposeSteps ==
    \/ ComposeClient \/ ComposeParse \/ ComposeCreateNetwork \/ ComposeCreateVolume
    \/ ComposeOrder \/ ComposeDeployService \/ ComposeReturn \/ ComposeExcept

(***************************************************************************)
(* The single-container strategies (docker_service.py 60-183)              *)
(***************************************************************************)
\* client = docker.from_env() before a try: the client, or an exception to the caller
FromEnv(next) ==
    \E ok \in BOOLEAN :
       IF ok
       THEN /\ ops' = Append(ops, Op("from_env", "docker", "", "ok"))
            /\ pc' = next
            /\ UNCHANGED <<result, sret>>
       ELSE /\ ops' = Append(ops, Op("from_env", "docker", "", "error"))
            /\ Finish(Raised)

\* the container under name is stopped and removed when there is one; anything but
\* NotFound goes to the except branch
ReplaceStep(name, next, exc) ==
    \E e \in ReplaceEnvs(containers[name]) :
       LET old == ReplaceOld(name, containers[name], e.stop_ok, e.remove_ok)
       IN /\ containers' = [containers EXCEPT ![name] = old.state]
          /\ ops' = ops \o old.ops
          /\ pc' = IF old.ok THEN next ELSE exc

\* client.containers.run(name=name, ...) after the calls before
RunStep(name, before, next, exc) ==
    \E o \in RunOutcomes :
       LET out == RunOn(containers[name], o)
       IN /\ containers' = [containers EXCEPT ![name] = AfterRun(@, o)]
          /\ ops' = (ops \o before) \o <<Op("containers.run", name, "", out)>>
          /\ pc' = IF out = "ok" THEN next ELSE exc

\* NginxService.write_config(project), its return value dropped, then success
ConfigStep ==
    /\ \E env \in ConfigEnvs :
          LET w == write_config(project, NoDomain, conf, containers[ProxyContainer], env)
          IN /\ ops' = ops \o w.ops
             /\ conf' = w.conf
    /\ Finish(Result("success", {"container_id"}))

\* _deploy_docker_image, line 64
ImageClient ==
    /\ pc = "i_client"
    /\ FromEnv("i_replace")
    /\ UNCHANGED <<project, containers, networks, volumes, conf, caller, invoked, loc>>
    /\ UNCHANGED <<sortVars, sslVars, apiVars>>

\* _deploy_docker_image, lines 68-75
ImageReplace ==
    /\ pc = "i_replace"
    /\ ReplaceStep(AppContainer, "i_run", "i_except")
    /\ UNCHANGED <<project, networks, volumes, conf, caller, result, sret, invoked, loc>>
    /\ UNCHANGED <<sortVars, sslVars, apiVars>>

\* _deploy_docker_image, lines 77-91: pull, then run
ImageRun ==
    /\ pc = "i_run"
    /\ \/ /\ ops' = Append(ops, Op("images.pull", "image", "", "error"))
          /\ pc' = "i_except"
          /\ UNCHANGED containers
       \/ RunStep(AppContainer, <<Op("images.pull", "image", "", "ok")>>, "i_config", "i_except")
    /\ UNCHANGED <<project, networks, volumes, conf, caller, result, sret, invoked, loc>>
    /\ UNCHANGED <<sortVars, sslVars, apiVars>>

\* _deploy_docker_image, lines 93-102
ImageConfig ==
    /\ pc = "i_config"
    /\ ConfigStep
    /\ UNCHANGED <<project, containers, networks, volumes, caller, invoked, loc>>
    /\ UNCHANGED <<sortVars, sslVars, apiVars>>

\* _deploy_docker_image, lines 104-109
ImageExcept ==
    /\ pc = "i_except"
    /\ Finish(Result("failed", {}))
    /\ UNCHANGED <<project, containers, networks, volumes, conf, caller, ops, invoked, loc>>
    /\ UNCHANGED <<sortVars, sslVars, apiVars>>

\* _deploy_dockerfile, line 115
FileClient ==
    /\ pc = "f_client"
    /\ FromEnv("f_build")
    /\ UNCHANGED <<project, containers, networks, volumes, conf, caller, invoked, loc>>
    /\ UNCHANGED <<sortVars, sslVars, apiVars>>

\* _deploy_dockerfile, lines 123-144: git clone (check=True), then images.build
FileBuild ==
    /\ pc = "f_build"
    /\ \E clone_ok \in BOOLEAN, build_ok \in BOOLEAN :
          IF ~clone_ok
          THEN /\ ops' = Append(ops, Op("subprocess.run", "git clone", "", "exit1"))
               /\ pc' = "f_except"
          ELSE /\ ops' = ops \o <<Op("subprocess.run", "git clone", "", "exit0"),
                                  Op("images.build", "image", "", IF build_ok THEN "ok" ELSE "error")>>
               /\ pc' = IF build_ok THEN "f_replace" ELSE "f_except"
    /\ UNCHANGED <<project, containers, networks, volumes, conf, caller, result, sret, invoked, loc>>
    /\ UNCHANGED <<sortVars, sslVars, apiVars>>

\* _deploy_dockerfile, lines 146-152
FileReplace ==
    /\ pc = "f_replace"
    /\ ReplaceStep(AppContainer, "f_run", "f_except")
    /\ UNCHANGED <<project, networks, volumes, conf, caller, result, sret, invoked, loc>>
    /\ UNCHANGED <<sortVars, sslVars, apiVars>>

\* _deploy_dockerfile, lines 154-164
FileRun ==
    /\ pc = "f_run"
    /\ RunStep(AppContainer, <<>>, "f_config", "f_except")
    /\ UNCHANGED <<project, networks, volumes, conf, caller, result, sret, invoked, loc>>
    /\ UNCHANGED <<sortVars, sslVars, apiVars>>

\* _deploy_dockerfile, lines 166-176
FileConfig ==
    /\ pc = "f_config"
    /\ ConfigStep
    /\ UNCHANGED <<project, containers, networks, volumes, caller, invoked, loc>>
    /\ UNCHANGED <<sortVars, sslVars, apiVars>>

\* _deploy_dockerfile, lines 178-183
FileExcept ==
    /\ pc = "f_except"
    /\ Finish(Result("failed", {}))
    /\ UNCHANGED <<project, containers, networks, volumes, conf, caller, ops, invoked, loc>>
    /\ UNCHANGED <<sortVars, sslVars, apiVars>>

(***************************************************************************)
(* ServiceDeployer.deploy_service (service_templates.py 232-373)           *)
(***************************************************************************)
\* the keys of ServiceTemplates.TEMPLATES (lines 23-170)
TemplateNames == {"minio", "postgres", "mysql", "mongodb", "redis", "rabbitmq", "elasticsearch"}

\* the values of Project.repo_url that the model uses for a managed service
RepoUrls == {"", "Redis", "mysql", "nosuchdb"}

\* str.lower() on those values
Lower(s) == IF s = "Redis" THEN "redis" ELSE s

\* ServiceTemplates.get_template (lines 196-199): the template's key, "none" for None
get_template(service_type) ==
    IF Lower(service_type) \in TemplateNames THEN Lower(service_type) ELSE "none"

\* the volume names of a template (lines 36, 61, 86, 110, 134, 158, 183)
TemplateVolumes(t) == IF t = "mongodb" THEN <<"data", "config">> ELSE <<"data">>

\* docker_service.py 203
service_type_of(p) == IF p.repo_url # "" THEN Lower(p.repo_url) ELSE "postgres"

\* service_templates.py 269
ServiceVolume(vol_name) == "auraops-" \o ProjectId \o "-" \o vol_name

\* a dict as a set of <<key, value>> pairs; dict.update
DictUpdate(a, b) == {p \in a : \A q \in b : q[1] # p[1]} \cup b

\* the value a dict holds under key k
DictGet(a, k) == (CHOOSE p \in a : p[1] = k)[2]

\* the variable that carries a template's generated password (lines 29-30, 54-56, ...)
SecretVar == "PASSWORD"

\* the value of a variable that the user supplied; generated secrets are 1, 2, ...
UserValue == 0

\* bound: the number of secrets the generator produces in a run of the model
MaxSecrets == 3

\* template["env_vars"]() (line 254): a dict with a password from secrets.token_urlsafe,
\* different at every call; n is the number of secrets produced before
GeneratedEnv(n) == {<<SecretVar, n + 1>>}

ServiceLocals == [op |-> "deploy_service", before |-> "absent",
                  service_type |-> "", template |-> "none", vi |-> 1, env_vars |-> {},
                  credentials |-> {}]

\* lines 322-355: the keys of connection_info["credentials"], chosen by comparing the
\* service_type argument as it was passed; no branch for any other value
credential_fields(service_type) ==
    CASE service_type = "postgres" -> {"username", "password", "database", "connection_string"}
      [] service_type = "mysql" -> {"username", "password", "root_password", "database", "connection_string"}
      [] service_type = "mongodb" -> {"username", "password", "database", "connection_string"}
      [] service_type = "redis" -> {"password", "connection_string"}
      [] service_type = "minio" -> {"access_key", "secret_key", "endpoint", "console_url"}
      [] OTHER -> {}

\* lines 245-247: the template lookup; ValueError, before the try, for an unknown type
ServiceTemplate ==
    /\ pc = "s_template"
    /\ LET template == get_template(loc.service_type)
       IN IF template = "none"
          THEN /\ Finish(Raised)
               /\ UNCHANGED loc
          ELSE /\ loc' = [loc EXCEPT !.template = template]
               /\ pc' = "s_client"
               /\ UNCHANGED <<result, sret>>
    /\ UNCHANGED <<project, containers, networks, volumes, conf, caller, ops, invoked>>
    /\ UNCHANGED <<sortVars, sslVars, apiVars>>

\* line 249
ServiceClient ==
    /\ pc = "s_client"
    /\ FromEnv("s_env")
    /\ UNCHANGED <<project, containers, networks, volumes, conf, caller, invoked, loc>>
    /\ UNCHANGED <<sortVars, sslVars, apiVars>>

\* lines 253-258: fresh generated variables, overridden by the project's own
ServiceEnv ==
    /\ pc = "s_env"
    /\ credentials.generated < MaxSecrets
    /\ credentials' = [credentials EXCEPT !.generated = @ + 1]
    /\ loc' = [loc EXCEPT !.env_vars = DictUpdate(GeneratedEnv(credentials.generated), project.env_vars)]
    /\ pc' = "s_volumes"
    /\ UNCHANGED <<project, containers, networks, volumes, conf, caller, ops, result, sret, invoked, handler>>
    /\ UNCHANGED <<sortVars, sslVars, raceVars>>

\* lines 266-276: one iteration of the loop over the template's volumes
ServiceCreateVolume ==
    /\ pc = "s_volumes"
    /\ loc.vi <= Len(TemplateVolumes(loc.template))
    /\ LET volume_name == ServiceVolume(TemplateVolumes(loc.template)[loc.vi])
       IN IF volume_name \in VolumeNames
          THEN /\ ops' = Append(ops, Op("volumes.get", volume_name, "", "ok"))
               /\ loc' = [loc EXCEPT !.vi = @ + 1]
               /\ pc' = "s_volumes"
               /\ UNCHANGED volumes
          ELSE \E ok \in BOOLEAN :
                  /\ ops' = ops \o <<Op("volumes.get", volume_name, "", "notfound"),
                                     Op("volumes.create", volume_name, NoLabel, IF ok THEN "ok" ELSE "error")>>
                  /\ volumes' = IF ok THEN volumes \cup {Volume(volume_name, NoLabel)} ELSE volumes
                  /\ loc' = IF ok THEN [loc EXCEPT !.vi = @ + 1] ELSE loc
                  /\ pc' = IF ok THEN "s_volumes" ELSE "s_except"
    /\ UNCHANGED <<project, containers, networks, conf, caller, result, sret, invoked>>
    /\ UNCHANGED <<sortVars, sslVars, apiVars>>

\* lines 278-285, after the volumes loop
ServiceReplace ==
    /\ pc = "s_volumes"
    /\ loc.vi > Len(TemplateVolumes(loc.template))
    /\ ReplaceStep(ServiceContainer, "s_run", "s_except")
    /\ UNCHANGED <<project, networks, volumes, conf, caller, result, sret, invoked, loc>>
    /\ UNCHANGED <<sortVars, sslVars, apiVars>>

\* lines 287-312: the service container is run, with environment=env_vars
ServiceRun ==
    /\ pc = "s_run"
    /\ RunStep(ServiceContainer, <<>>, "s_return", "s_except")
    /\ credentials' = IF pc' = "s_return"
                      THEN [credentials EXCEPT !.used = Append(@, DictGet(loc.env_vars, SecretVar))]
                      ELSE credentials
    /\ UNCHANGED <<project, networks, volumes, conf, caller, result, sret, invoked, loc, handler>>
    /\ UNCHANGED <<sortVars, sslVars, raceVars>>

\* lines 314-367: connection info, the variables saved on the project, and success
ServiceReturn ==
    /\ pc = "s_return"
    /\ loc' = [loc EXCEPT !.credentials = credential_fields(loc.service_type)]
    /\ project' = [project EXCEPT !.env_vars = loc.env_vars]
    /\ Finish(Result("success", {"service_type", "service_name", "container_id", "connection_info"}))
    /\ UNCHANGED <<containers, networks, volumes, conf, caller, ops, invoked>>
    /\ UNCHANGED <<sortVars, sslVars, apiVars>>

\* lines 369-374
ServiceExcept ==
    /\ pc = "s_except"
    /\ Finish(Result("failed", {}))
    /\ UNCHANGED <<project, containers, networks, volumes, conf, caller, ops, invoked, loc>>
    /\ UNCHANGED <<sortVars, sslVars, apiVars>>

(***************************************************************************)
(* DockerService.deploy_project (docker_service.py 12-44)                  *)
(***************************************************************************)
\* a chain that sends docker_image projects to the source-build strategy
strategy_for_swapped(deployment_type) ==
    IF deployment_type = "static_build" THEN "_deploy_static_build"
    ELSE IF deployment_type = "docker_image" THEN "_deploy_dockerfile"
    ELSE IF deployment_type = "dockerfile" THEN "_deploy_docker_image"
    ELSE IF deployment_type = "docker_compose" THEN "_deploy_compose"
    ELSE IF deployment_type = "service" THEN "_deploy_service"
    ELSE "none"

\* the if-chain of lines 26-37: the strategy called for a deployment_type, "none" for
\* the else branch
strategy_for(deployment_type) ==
    IF deployment_type = "static_build" THEN "_deploy_static_build"
    ELSE IF deployment_type = "docker_image" THEN "_deploy_docker_image"
    ELSE IF deployment_type = "dockerfile" THEN "_deploy_dockerfile"
    ELSE IF deployment_type = "docker_compose" THEN "_deploy_compose"
    ELSE IF deployment_type = "service" THEN "_deploy_service"
    ELSE "none"

\* where a strategy starts, and with which locals; before is the state in which the
\* call finds the container of the previous deployment
StrategyEntry(st) ==
    IF st = "_deploy_static_build" THEN [pc |-> "b_client", loc |-> BuildLocals]
    ELSE IF st = "_deploy_docker_image"
    THEN [pc |-> "i_client", loc |-> [op |-> "_deploy_docker_image", before |-> containers[AppContainer]]]
    ELSE IF st = "_deploy_dockerfile"
    THEN [pc |-> "f_client", loc |-> [op |-> "_deploy_dockerfile", before |-> containers[AppContainer]]]
    ELSE IF st = "_deploy_compose" THEN [pc |-> "c_client", loc |-> ComposeLocals]
    ELSE [pc |-> "s_template", loc |-> [ServiceLocals EXCEPT !.service_type = service_type_of(project),
                                                             !.before = containers[ServiceContainer]]]

\* lines 25-37: the branch taken for the project's deployment_type
Dispatch ==
    /\ caller' = "dispatcher"
    /\ ops' = <<>>
    /\ result' = NoResult
    /\ LET st == strategy_for(project.deployment_type)
       IN IF st = "none"
          THEN /\ invoked' = <<>>
               /\ sret' = Raised
               /\ pc' = "d_return"
               /\ loc' = [op |-> "deploy_project"]
          ELSE /\ invoked' = <<st>>
               /\ sret' = NoResult
               /\ pc' = StrategyEntry(st).pc
               /\ loc' = StrategyEntry(st).loc

\* a call of DockerService.deploy_project(project): lines 25-37
DeployProject ==
    /\ Ready
    /\ Dispatch
    /\ UNCHANGED <<project, containers, networks, volumes, conf>>
    /\ UNCHANGED <<sortVars, sslVars, apiVars>>

\* a dispatcher without the except of lines 39-44
DispatchReraise ==
    /\ pc = "d_return"
    /\ result' = sret
    /\ pc' = "done"
    /\ UNCHANGED <<project, containers, networks, volumes, conf, caller, ops, sret, invoked, loc>>
    /\ UNCHANGED <<sortVars, sslVars, apiVars>>

\* lines 27-35 and 39-44: the strategy's result is returned; an exception of the try
\* becomes a failed result
DispatchReturn ==
    /\ pc = "d_return"
    /\ result' = IF sret.kind = "return" THEN sret ELSE Result("failed", {})
    /\ pc' = "done"
    /\ UNCHANGED <<project, containers, networks, volumes, conf, caller, ops, sret, invoked, loc>>
    /\ UNCHANGED <<sortVars, sslVars, apiVars>>

ImageSteps == ImageClient \/ ImageReplace \/ ImageRun \/ ImageConfig \/ ImageExcept

FileSteps == FileClient \/ FileBuild \/ FileReplace \/ FileRun \/ FileConfig \/ FileExcept

ServiceSteps ==
    \/ ServiceTemplate \/ ServiceClient \/ ServiceEnv \/ ServiceCreateVolume \/ ServiceReplace
    \/ ServiceRun \/ ServiceReturn \/ ServiceExcept

(***************************************************************************)
(* SSLService.auto_renew_expiring_certificates (ssl_service.py 152-173)    *)
(***************************************************************************)
\* timedelta(days=30) at line 162
RenewalWindowDays == 30

\* bound: the number of rows of the domains table
MaxDomains == 2

\* days until expiry, at the start, of the certificates of the model
ExpiryDays == {10, 60}

\* hostnames of the rows, by position in the table
RowHostname(k) == <<"d", ToString(k), ".", "c">>

\* rows the lifecycle operations produce: never issued, issued and expiring on some day
\* or one tick after the renewal horizon, and (renewed without ever being issued) not
\* enabled with an expiry
RowsAt(k) ==
    {NewDomain(RowHostname(k))}
      \cup {[hostname |-> RowHostname(k), ssl_enabled |-> TRUE, ssl_issued_at |-> 0, ssl_expires_at |-> e] :
               e \in {dd * TicksPerDay : dd \in ExpiryDays} \cup {RenewalWindowDays * TicksPerDay + 1}}
      \cup {[hostname |-> RowHostname(k), ssl_enabled |-> FALSE, ssl_issued_at |-> NoTime,
             ssl_expires_at |-> dd * TicksPerDay] : dd \in ExpiryDays}

DomainTables == UNION {{t \in [1..n -> UNION {RowsAt(k) : k \in 1..n}] : \A k \in 1..n : t[k] \in RowsAt(k)} : n \in 1..MaxDomains}

\* the filter of lines 160-163, evaluated at time t: the positions of the rows selected
ExpiringSoon(table, t) ==
    {k \in 1..Len(table) :
        /\ table[k].ssl_enabled = TRUE
        /\ table[k].ssl_expires_at # NoTime
        /\ table[k].ssl_expires_at <= t + RenewalWindowDays * TicksPerDay}

\* renew_certificate (lines 61-84) on a row, at time t, as a function
renew_certificate(d, tool, t) ==
    IF tool = "zero"
    THEN [row |-> [d EXCEPT !.ssl_expires_at = t + ValidityDays * TicksPerDay], ret |-> TRUE]
    ELSE [row |-> d, ret |-> FALSE]

SweepLocals == [op |-> "auto_renew_expiring_certificates", expiring_soon |-> <<>>, i |-> 1]

\* a call of SSLService.auto_renew_expiring_certificates(db_session)
AutoRenew ==
    /\ Ready
    /\ pc' = "w_query"
    /\ caller' = "direct"
    /\ ops' = <<>>
    /\ loc' = SweepLocals
    /\ result' = NoResult
    /\ UNCHANGED <<project, containers, networks, volumes, conf, sret, invoked>>
    /\ UNCHANGED <<sortVars, apiVars, domain, now, ssl_call, domains>>

\* lines 160-163: the query; its rows come in an order the query does not fix
SweepQuery ==
    /\ pc = "w_query"
    /\ \/ /\ ops' = Append(ops, Op("query", "domains", "", "error"))
          /\ pc' = "w_except"
          /\ UNCHANGED loc
       \/ \E order \in Permutations_(ExpiringSoon(domains, now)) :
             /\ ops' = Append(ops, Op("query", "domains", "", "ok"))
             /\ loc' = [loc EXCEPT !.expiring_soon = order]
             /\ pc' = "w_renew"
    /\ UNCHANGED <<project, containers, networks, volumes, conf, caller, result, sret, invoked>>
    /\ UNCHANGED <<sortVars, apiVars, domain, now, ssl_call, domains>>

\* lines 165-170: one iteration: renew_certificate(domain), and a commit when it
\* succeeded; an exception of the commit leaves the loop
SweepRenew ==
    /\ pc = "w_renew"
    /\ loc.i <= Len(loc.expiring_soon)
    /\ \E tool \in ToolOutcomes, commit_ok \in BOOLEAN :
          LET k == loc.expiring_soon[loc.i]
              r == renew_certificate(domains[k], tool, now)
              call == Op("certbot renew", Join(domains[k].hostname), "", tool)
          IN /\ domains' = [domains EXCEPT ![k] = r.row]
             /\ loc' = [loc EXCEPT !.i = @ + 1]
             /\ IF ~r.ret
                THEN /\ commit_ok
                     /\ ops' = Append(ops, call)
                     /\ pc' = "w_renew"
                ELSE /\ ops' = ops \o <<call, Op("commit", "domains", "", IF commit_ok THEN "ok" ELSE "error")>>
                     /\ pc' = IF commit_ok THEN "w_renew" ELSE "w_except"
    /\ UNCHANGED <<project, containers, networks, volumes, conf, caller, result, sret, invoked>>
    /\ UNCHANGED <<sortVars, apiVars, domain, now, ssl_call>>

\* the loop is over; the function returns None
SweepEnd ==
    /\ pc = "w_renew"
    /\ loc.i > Len(loc.expiring_soon)
    /\ Finish(Returned("None"))
    /\ UNCHANGED <<project, containers, networks, volumes, conf, caller, ops, invoked, loc>>
    /\ UNCHANGED <<sortVars, apiVars, domain, now, ssl_call, domains>>

\* lines 172-173: the except around the whole sweep logs and returns None
SweepExcept ==
    /\ pc = "w_except"
    /\ Finish(Returned("None"))
    /\ UNCHANGED <<project, containers, networks, volumes, conf, caller, ops, invoked, loc>>
    /\ UNCHANGED <<sortVars, apiVars, domain, now, ssl_call, domains>>

(***************************************************************************)
(* The request handlers around the services (api/projects.py,              *)
(* api/services.py)                                                        *)
(***************************************************************************)
\* a stop_project that reports a missing container as a failure
stop_project_strict(state, client_ok, stop_ok) ==
    IF ~client_ok
    THEN [result |-> Raised, state |-> state, ops |-> <<Op("from_env", "docker", "", "error")>>]
    ELSE IF state = "absent"
    THEN [result |-> Result("failed", {}), state |-> state,
          ops |-> <<Op("from_env", "docker", "", "ok"), Op("containers.get", AppContainer, "", "notfound")>>]
    ELSE [result |-> Result(IF stop_ok THEN "success" ELSE "failed", {}),
          state |-> IF stop_ok THEN Stopped(state) ELSE state,
          ops |-> <<Op("from_env", "docker", "", "ok"), Op("containers.get", AppContainer, "", "ok"),
                    Op("stop", AppContainer, "", IF stop_ok THEN "ok" ELSE "error")>>]

\* DockerService.stop_project (docker_service.py 210-236) as a function of the state of
\* the app container's name and of what the runtime answers
stop_project(state, client_ok, stop_ok) ==
    IF ~client_ok
    THEN [result |-> Raised, state |-> state, ops |-> <<Op("from_env", "docker", "", "error")>>]
    ELSE IF state = "absent"
    THEN [result |-> Result("success", {}), state |-> state,
          ops |-> <<Op("from_env", "docker", "", "ok"), Op("containers.get", AppContainer, "", "notfound")>>]
    ELSE IF stop_ok
    THEN [result |-> Result("success", {}), state |-> Stopped(state),
          ops |-> <<Op("from_env", "docker", "", "ok"), Op("containers.get", AppContainer, "", "ok"),
                    Op("stop", AppContainer, "", "ok")>>]
    ELSE [result |-> Result("failed", {}), state |-> state,
          ops |-> <<Op("from_env", "docker", "", "ok"), Op("containers.get", AppContainer, "", "ok"),
                    Op("stop", AppContainer, "", "error")>>]

\* what the runtime can answer stop_project with
StopEnvs(state) ==
    {e \in [client_ok : BOOLEAN, stop_ok : BOOLEAN] : (~e.client_ok \/ state = "absent") => e.stop_ok}

\* POST /projects/{id}/deploy (projects.py 207-227): status deploying, then the dispatcher
ApiDeploy ==
    /\ Ready
    /\ handler' = "deploy"
    /\ project' = [project EXCEPT !.status = "deploying"]
    /\ Dispatch
    /\ UNCHANGED <<containers, networks, volumes, conf, credentials>>
    /\ UNCHANGED <<sortVars, sslVars, raceVars>>

\* POST /services/deploy (services.py 49-86): the template is validated, the project row
\* is created with status deploying and the user's variables, deploy_service is called
ApiDeployService ==
    /\ Ready
    /\ pc = "idle"
    /\ project.deployment_type = "service"
    /\ get_template(project.repo_url) # "none"
    /\ handler' = "deploy_service"
    /\ project' = [project EXCEPT !.status = "deploying"]
    /\ caller' = "direct"
    /\ ops' = <<>>
    /\ result' = NoResult
    /\ pc' = "s_template"
    /\ loc' = [ServiceLocals EXCEPT !.service_type = project.repo_url,
                                                   !.before = containers[ServiceContainer]]
    /\ UNCHANGED <<containers, networks, volumes, conf, sret, invoked, credentials>>
    /\ UNCHANGED <<sortVars, sslVars, raceVars>>

\* POST /services/{id}/restart (services.py 143-163): stop_project, its result dropped,
\* then deploy_service; an exception of stop_project ends the request
ApiRestart ==
    /\ Ready
    /\ pc = "done"
    /\ project.deployment_type = "service"
    /\ \E e \in StopEnvs(containers[AppContainer]) :
          LET r == stop_project(containers[AppContainer], e.client_ok, e.stop_ok)
          IN /\ containers' = [containers EXCEPT ![AppContainer] = r.state]
             /\ ops' = r.ops
             /\ caller' = "direct"
             /\ IF r.result.kind = "raise"
                THEN /\ result' = Raised
                     /\ pc' = "done"
                     /\ loc' = [op |-> "stop_project"]
                     /\ UNCHANGED handler
                ELSE /\ result' = NoResult
                     /\ pc' = "s_template"
                     /\ loc' = [ServiceLocals EXCEPT !.service_type = project.repo_url,
                                                   !.before = containers[ServiceContainer]]
                     /\ handler' = "restart"
    /\ UNCHANGED <<project, networks, volumes, conf, sret, invoked, credentials>>
    /\ UNCHANGED <<sortVars, sslVars, raceVars>>

\* POST /projects/{id}/stop (projects.py 236-254): status stopped when stop_project succeeded
ApiStop ==
    /\ Ready
    /\ pc = "done"
    /\ \E e \in StopEnvs(containers[AppContainer]) :
          LET r == stop_project(containers[AppContainer], e.client_ok, e.stop_ok)
          IN /\ containers' = [containers EXCEPT ![AppContainer] = r.state]
             /\ ops' = r.ops
             /\ result' = r.result
             /\ project' = IF r.result.status = "success" THEN [project EXCEPT !.status = "stopped"] ELSE project
    /\ caller' = "direct"
    /\ pc' = "done"
    /\ loc' = [op |-> "stop_project"]
    /\ UNCHANGED <<networks, volumes, conf, sret, invoked>>
    /\ UNCHANGED <<sortVars, sslVars, apiVars>>

\* projects.py 229-233, services.py 88-90 and 166-167: the handler gets the result and
\* sets the status to running or failed; an exception of the service call ends the
\* request before that
HandlerReturn ==
    /\ handler # "none"
    /\ pc = "done"
    /\ handler' = "none"
    /\ project' = IF result.kind = "return"
                  THEN [project EXCEPT !.status = IF result.status = "success" THEN "running" ELSE "failed"]
                  ELSE project
    /\ UNCHANGED <<containers, networks, volumes, conf, pc, caller, ops, result, sret, invoked, loc, credentials>>
    /\ UNCHANGED <<sortVars, sslVars, raceVars>>

(***************************************************************************)
(* Removal of a project's resources (compose_service.py 323-366,           *)
(* docker_service.py 238-272)                                              *)
(***************************************************************************)
\* the volumes after a removal that deletes the volumes carrying the project's label
DeleteLabelledVolumes(vols) == {v \in vols : v.label # ProjectLabel}

\* compose_service.py 352-353: the volumes after remove_compose_project, which
\* deletes none
KeepVolumes(vols) == vols

\* the containers that containers.list(all=True, filters={label: ...}) returns: the
\* service containers of the project that exist
LabelledContainers(cs) == {ComposeContainer(s) : s \in {t \in ComposeServiceNames : cs[ComposeContainer(t)] # "absent"}}

\* lines 337-343: each listed container is stopped and removed, a failure of either
\* call is passed over; env gives the answers of the runtime per container
RECURSIVE RemoveListed(_, _, _)
RemoveListed(order, cs, env) ==
    IF order = <<>> THEN [containers |-> cs, ops |-> <<>>]
    ELSE LET name == Head(order)
             t == StopRemove(name, cs[name], env[name].stop_ok, env[name].remove_ok)
             rest == RemoveListed(Tail(order), [cs EXCEPT ![name] = t.state], env)
         IN [containers |-> rest.containers, ops |-> t.ops \o rest.ops]

\* lines 345-350: networks.get(name).remove(), any failure passed over.  With several
\* networks of the name the lookup by name is refused or picks one of them.
RemoveNetworkOutcomes(nets) ==
    IF {n \in nets : n.name = ComposeNetwork} = {}
    THEN {[networks |-> nets, ops |-> <<Op("networks.get", ComposeNetwork, "", "notfound")>>]}
    ELSE {[networks |-> nets, ops |-> <<Op("networks.get", ComposeNetwork, "", "error")>>]}
         \cup {[networks |-> nets,
                ops |-> <<Op("networks.get", ComposeNetwork, "", "ok"),
                          Op("network.remove", ComposeNetwork, "", "error")>>]}
         \cup {[networks |-> nets \ {n},
                ops |-> <<Op("networks.get", ComposeNetwork, "", "ok"),
                          Op("network.remove", ComposeNetwork, "", "ok")>>] :
                   n \in {m \in nets : m.name = ComposeNetwork}}

\* a call of ComposeService.remove_compose_project(project)
RemoveComposeProject ==
    /\ Ready
    /\ caller' = "direct"
    /\ pc' = "done"
    /\ loc' = [op |-> "remove_compose_project"]
    /\ \E client_ok \in BOOLEAN, list_ok \in BOOLEAN :
          IF ~client_ok
          THEN /\ ops' = <<Op("from_env", "docker", "", "error")>>
               /\ result' = Raised
               /\ UNCHANGED <<containers, networks, volumes>>
          ELSE IF ~list_ok
          THEN /\ ops' = <<Op("from_env", "docker", "", "ok"),
                           Op("containers.list", ProjectLabel, "all", "error")>>
               /\ result' = Result("failed", {})
               /\ UNCHANGED <<containers, networks, volumes>>
          ELSE \E order \in Permutations_(LabelledContainers(containers)),
                  env \in [LabelledContainers(containers) -> ReplaceEnvs("running")] :
                  LET r == RemoveListed(order, containers, env)
                  IN \E n \in RemoveNetworkOutcomes(networks) :
                        /\ ops' = (<<Op("from_env", "docker", "", "ok"),
                                     Op("containers.list", ProjectLabel, "all", "ok")>> \o r.ops) \o n.ops
                        /\ containers' = r.containers
                        /\ networks' = n.networks
                        /\ volumes' = KeepVolumes(volumes)
                        /\ result' = Result("success", {})
    /\ UNCHANGED <<project, conf, sret, invoked>>
    /\ UNCHANGED <<sortVars, sslVars, apiVars>>

\* a call of DockerService.remove_project(project)
RemoveProject ==
    /\ Ready
    /\ caller' = "direct"
    /\ pc' = "done"
    /\ loc' = [op |-> "remove_project"]
    /\ \E client_ok \in BOOLEAN, e \in ReplaceEnvs(containers[AppContainer]),
          clean_ok \in BOOLEAN, env \in ConfigEnvs :
          LET old == ReplaceOld(AppContainer, containers[AppContainer], e.stop_ok, e.remove_ok)
              clean == IF is_static(project)
                       THEN <<Op("rmtree", "/var/www/project-" \o ProjectId, "",
                                 IF clean_ok THEN "ok" ELSE "error")>>
                       ELSE <<>>
              w == delete_config(conf, containers[ProxyContainer], env)
          IN IF ~client_ok
             THEN /\ ops' = <<Op("from_env", "docker", "", "error")>>
                  /\ result' = Raised
                  /\ UNCHANGED <<containers, conf>>
             ELSE IF ~old.ok
             THEN /\ ops' = <<Op("from_env", "docker", "", "ok")>> \o old.ops
                  /\ containers' = [containers EXCEPT ![AppContainer] = old.state]
                  /\ result' = Result("failed", {})
                  /\ UNCHANGED conf
             ELSE /\ ops' = ((<<Op("from_env", "docker", "", "ok")>> \o old.ops) \o clean) \o w.ops
                  /\ containers' = [containers EXCEPT ![AppContainer] = old.state]
                  /\ conf' = w.conf
                  /\ result' = Result("success", {})
    /\ UNCHANGED <<project, networks, volumes, sret, invoked>>
    /\ UNCHANGED <<sortVars, sslVars, apiVars>>


(***************************************************************************)
(* Concurrent requests on one project (docker_service.py 60-236): every    *)
(* call to the runtime is one step, and nothing in the code keeps two      *)
(* requests for the same project apart                                     *)
(***************************************************************************)
Requests == {1, 2}

\* bound: the containers created under the app name in one behaviour
MaxInstances == 3

RaceOps == {"_deploy_docker_image", "_deploy_dockerfile", "stop_project"}

\* container is the id of the container the request started (0: none), whose short_id
\* the success result carries (lines 97-101)
IdleThread == [op |-> "none", pc |-> "idle", old |-> 0, container |-> 0, last |-> "", status |-> ""]

\* the containers that exist under auraops-app-<id>, by id
Existing == {i \in 1..Len(instances) : instances[i] # "removed"}

\* what the runtime holds under the name, as containers.run sees it
NameState == IF Existing = {} THEN "absent" ELSE instances[CHOOSE i \in Existing : TRUE]

\* the requests that may still create a container
Deploying == {t \in Requests : threads[t].op # "stop_project" /\ threads[t].pc \notin {"idle", "done"}}

\* request t ends with a status
RaceEnd(t, status, last) ==
    threads' = [threads EXCEPT ![t] = [@ EXCEPT !.pc = "done", !.status = status, !.last = last]]

\* request t goes on with its next call
RaceGoto(t, pc_, last) ==
    threads' = [threads EXCEPT ![t] = [@ EXCEPT !.pc = pc_, !.last = last]]

\* the call after the old container is out of the way (lines 76-78, 154-155); for
\* stop_project NotFound is a success (lines 226-230)
AfterOld(t, last) ==
    CASE threads[t].op = "_deploy_docker_image" -> RaceGoto(t, "pull", last)
      [] threads[t].op = "_deploy_dockerfile" -> RaceGoto(t, "run", last)
      [] threads[t].op = "stop_project" -> RaceEnd(t, "success", last)

\* a request enters one of the operations: client = docker.from_env() (lines 64, 97, 214)
RaceBegin(t) ==
    /\ threads[t].pc \in {"idle", "done"}
    /\ \E op \in RaceOps, ok \in BOOLEAN :
          /\ op # "stop_project" => Len(instances) + Cardinality(Deploying) < MaxInstances
          /\ threads' = [threads EXCEPT ![t] =
                            [op |-> op, old |-> 0, container |-> 0, last |-> IF ok THEN "" ELSE "from_env",
                             pc |-> IF ~ok THEN "done"
                                    ELSE IF op = "_deploy_dockerfile" THEN "build" ELSE "get",
                             status |-> IF ok THEN "" ELSE "raised"]]
    /\ UNCHANGED instances

\* _deploy_dockerfile, lines 102-144: clone and image build
RaceBuild(t) ==
    /\ threads[t].pc = "build"
    /\ \E ok \in BOOLEAN : IF ok THEN RaceGoto(t, "get", "build") ELSE RaceEnd(t, "failed", "build")
    /\ UNCHANGED instances

\* client.containers.get(container_name) (lines 70, 148, 218)
RaceGet(t) ==
    /\ threads[t].pc = "get"
    /\ IF Existing = {}
       THEN AfterOld(t, "notfound")
       ELSE \E i \in Existing :
               threads' = [threads EXCEPT ![t] = [@ EXCEPT !.pc = "stop", !.old = i, !.last = "get"]]
    /\ UNCHANGED instances

\* old_container.stop() (lines 71, 149, 219): NotFound when another request removed it
RaceStop(t) ==
    /\ threads[t].pc = "stop"
    /\ LET i == threads[t].old
       IN IF instances[i] = "removed"
          THEN AfterOld(t, "notfound") /\ UNCHANGED instances
          ELSE \E ok \in BOOLEAN :
                  IF ok
                  THEN /\ instances' = [instances EXCEPT ![i] = Stopped(@)]
                       /\ IF threads[t].op = "stop_project"
                          THEN RaceEnd(t, "success", "stop")
                          ELSE RaceGoto(t, "remove", "stop")
                  ELSE RaceEnd(t, "failed", "stop") /\ UNCHANGED instances

\* old_container.remove() (lines 72, 150)
RaceRemove(t) ==
    /\ threads[t].pc = "remove"
    /\ LET i == threads[t].old
       IN IF instances[i] = "removed"
          THEN AfterOld(t, "notfound") /\ UNCHANGED instances
          ELSE \E ok \in BOOLEAN :
                  IF ok
                  THEN /\ instances' = [instances EXCEPT ![i] = "removed"]
                       /\ AfterOld(t, "remove")
                  ELSE RaceEnd(t, "failed", "remove") /\ UNCHANGED instances

\* client.images.pull (line 78)
RacePull(t) ==
    /\ threads[t].pc = "pull"
    /\ \E ok \in BOOLEAN : IF ok THEN RaceGoto(t, "run", "pull") ELSE RaceEnd(t, "failed", "pull")
    /\ UNCHANGED instances

\* client.containers.run(name=container_name, ...) (lines 82-90, 158-166): the runtime
\* refuses a name that a container holds
RaceRun(t) ==
    /\ threads[t].pc = "run"
    /\ \E o \in RunOutcomes :
          LET out == RunOn(NameState, o)
              last == IF NameState # "absent" THEN "conflict" ELSE out
          IN /\ instances' = CASE out = "ok" -> Append(instances, "running")
                               [] out = "start_failed" -> Append(instances, "exited")
                               [] out = "error" -> instances
             /\ IF out = "ok"
                THEN threads' = [threads EXCEPT ![t] = [@ EXCEPT !.pc = "config", !.last = last,
                                                                !.container = Len(instances) + 1]]
                ELSE RaceEnd(t, "failed", last)

\* NginxService.write_config, its value unused, then the success result (lines 93-101)
RaceConfig(t) ==
    /\ threads[t].pc = "config"
    /\ RaceEnd(t, "success", "config")
    /\ UNCHANGED instances

RaceFrame ==
    /\ UNCHANGED <<project, containers, networks, volumes, conf, pc, caller, ops, result, sret, invoked, loc>>
    /\ UNCHANGED <<sortVars, sslVars, handler, credentials, background_tasks, conf_dir, namespace>>
(***************************************************************************)
(* Concurrent builds of one project (build_service.py 71-205): instances   *)
(* are the containers created under auraops-build-<id>, every call to the  *)
(* runtime is one step                                                     *)
(***************************************************************************)
\* the requests that are about to create the build container
Acquiring == {t \in Requests : threads[t].op = "build_static_site" /\ threads[t].pc = "b_run"}

\* the positions at which a request works in the container it acquired
UsingContainer == {"b_clone", "b_install", "b_build", "b_copy", "b_stop", "b_remove"}

\* a call on the container object that request t holds: it raises when the container
\* is gone or (for exec_run) not running
OwnContainerAnswers(t, needs_running) ==
    /\ instances[threads[t].container] # "removed"
    /\ needs_running => instances[threads[t].container] = "running"

\* line 71: client = docker.from_env(), before the try
BuildRaceBegin(t) ==
    /\ threads[t].pc \in {"idle", "done"}
    /\ Len(instances) + Cardinality(Acquiring) < MaxInstances
    /\ \E ok \in BOOLEAN :
          threads' = [threads EXCEPT ![t] =
                         [op |-> "build_static_site", old |-> 0, container |-> 0,
                          last |-> IF ok THEN "" ELSE "from_env",
                          pc |-> IF ok THEN "b_run" ELSE "done",
                          status |-> IF ok THEN "" ELSE "raised"]]
    /\ UNCHANGED instances

\* lines 84-92: client.containers.run(name=auraops-build-<id>, ...); the runtime refuses
\* a name that a container holds
BuildRaceRun(t) ==
    /\ threads[t].pc = "b_run"
    /\ \E o \in RunOutcomes :
          LET out == RunOn(NameState, o)
              last == IF NameState # "absent" THEN "conflict" ELSE out
          IN /\ instances' = CASE out = "ok" -> Append(instances, "running")
                               [] out = "start_failed" -> Append(instances, "exited")
                               [] out = "error" -> instances
             /\ IF out = "ok"
                THEN threads' = [threads EXCEPT ![t] = [@ EXCEPT !.pc = "b_clone", !.last = last,
                                                                !.container = Len(instances) + 1]]
                ELSE RaceGoto(t, "b_except", last)

\* lines 99-105: the fetch; an exit code other than 0 raises
BuildRaceClone(t) ==
    /\ threads[t].pc = "b_clone"
    /\ IF OwnContainerAnswers(t, TRUE)
       THEN \E ok \in BOOLEAN : RaceGoto(t, IF ok THEN "b_install" ELSE "b_except", "fetch")
       ELSE RaceGoto(t, "b_except", "gone")
    /\ UNCHANGED instances

\* lines 113-116 and 133-136: install and build; the exit code is not looked at
BuildRaceStreamed(t) ==
    /\ threads[t].pc \in {"b_install", "b_build"}
    /\ LET next == IF threads[t].pc = "b_install" THEN "b_build" ELSE "b_copy"
       IN IF OwnContainerAnswers(t, TRUE)
          THEN RaceGoto(t, next, "exec")
          ELSE RaceGoto(t, "b_except", "gone")
    /\ UNCHANGED instances

\* lines 152-157: os.makedirs, then os.system("docker cp ..."), whose status is dropped
BuildRaceCopy(t) ==
    /\ threads[t].pc = "b_copy"
    /\ \E dir_ok \in BOOLEAN : RaceGoto(t, IF dir_ok THEN "b_stop" ELSE "b_except", "copy")
    /\ UNCHANGED instances

\* line 163: container.stop() on the container the request acquired
BuildRaceStop(t) ==
    /\ threads[t].pc = "b_stop"
    /\ IF OwnContainerAnswers(t, FALSE)
       THEN \E ok \in BOOLEAN :
               IF ok
               THEN /\ instances' = [instances EXCEPT ![threads[t].container] = Stopped(@)]
                    /\ RaceGoto(t, "b_remove", "stop")
               ELSE RaceGoto(t, "b_except", "stop") /\ UNCHANGED instances
       ELSE RaceGoto(t, "b_except", "gone") /\ UNCHANGED instances

\* line 164: container.remove() on the container the request acquired
BuildRaceRemove(t) ==
    /\ threads[t].pc = "b_remove"
    /\ IF OwnContainerAnswers(t, FALSE)
       THEN \E ok \in BOOLEAN :
               IF ok
               THEN /\ instances' = [instances EXCEPT ![threads[t].container] = "removed"]
                    /\ RaceGoto(t, "b_nginx", "remove")
               ELSE RaceGoto(t, "b_except", "remove") /\ UNCHANGED instances
       ELSE RaceGoto(t, "b_except", "gone") /\ UNCHANGED instances

\* lines 167-183: the proxy configuration, then the success result
BuildRaceNginx(t) ==
    /\ threads[t].pc = "b_nginx"
    /\ RaceEnd(t, "success", "config")
    /\ UNCHANGED instances

\* lines 185-195: the except branch looks the container up by name, whoever created it
BuildRaceExceptGet(t) ==
    /\ threads[t].pc = "b_except"
    /\ IF Existing = {}
       THEN RaceEnd(t, "failed", "notfound")
       ELSE \E i \in Existing :
               threads' = [threads EXCEPT ![t] = [@ EXCEPT !.pc = "b_xstop", !.old = i, !.last = "get"]]
    /\ UNCHANGED instances

\* line 196: container.stop() on the container found; lines 198-199 swallow any error
BuildRaceExceptStop(t) ==
    /\ threads[t].pc = "b_xstop"
    /\ LET i == threads[t].old
       IN IF instances[i] = "removed"
          THEN RaceEnd(t, "failed", "gone") /\ UNCHANGED instances
          ELSE \E ok \in BOOLEAN :
                  IF ok
                  THEN /\ instances' = [instances EXCEPT ![i] = Stopped(@)]
                       /\ RaceGoto(t, "b_xremove", "stop")
                  ELSE RaceEnd(t, "failed", "stop") /\ UNCHANGED instances

\* line 197: container.remove() on the container found, then the failed result
BuildRaceExceptRemove(t) ==
    /\ threads[t].pc = "b_xremove"
    /\ LET i == threads[t].old
       IN IF instances[i] = "removed"
          THEN RaceEnd(t, "failed", "gone") /\ UNCHANGED instances
          ELSE \E ok \in BOOLEAN :
                  /\ instances' = IF ok THEN [instances EXCEPT ![i] = "removed"] ELSE instances
                  /\ RaceEnd(t, "failed", "remove")



(***************************************************************************)
(* The deploy webhook (api/webhooks.py)                                    *)
(***************************************************************************)
\* Project.webhook_token of the project of the model (projects.py 115), and the tokens
\* that requests carry
webhook_token(p) == "token-" \o p.id
Tokens == {webhook_token([id |-> ProjectId]), "token-unknown"}

\* bound: the detached tasks that may be waiting at one time
MaxTasks == 2

\* handle_deployment (webhooks.py 21-33): its body is pass, the project is left as it is
handle_deployment(p) == p

\* POST /deploy/{token} (webhooks.py 10-19)
TriggerDeploy ==
    /\ Ready
    /\ Len(background_tasks) < MaxTasks
    /\ \E token \in Tokens :
          /\ IF token = webhook_token(project)
             THEN /\ background_tasks' = Append(background_tasks,
                                                [task |-> "handle_deployment", project_id |-> project.id])
                  /\ result' = Returned("deployment_queued")
             ELSE /\ UNCHANGED background_tasks
                  /\ result' = Returned("404")
          /\ loc' = [op |-> "trigger_deploy", token |-> token]
    /\ pc' = "done"
    /\ caller' = "direct"
    /\ ops' = <<>>
    /\ UNCHANGED <<project, containers, networks, volumes, conf, sret, invoked>>
    /\ UNCHANGED <<sortVars, sslVars, handler, credentials, instances, threads, conf_dir, namespace>>

\* the server runs the oldest detached task after the response was sent
HandleDeployment ==
    /\ background_tasks # <<>>
    /\ project' = handle_deployment(project)
    /\ background_tasks' = Tail(background_tasks)
    /\ UNCHANGED <<containers, networks, volumes, conf, pc, caller, ops, result, sret, invoked, loc>>
    /\ UNCHANGED <<sortVars, sslVars, handler, credentials, instances, threads, conf_dir, namespace>>
(***************************************************************************)
(* The proxy's configuration directory, shared by the projects             *)
(* (nginx_service.py 164-201, 250-281): nginx -t parses every file of it   *)
(***************************************************************************)
\* a second project, whose file lies in the same directory
OtherProjectId == "2"
ProjectIds == {ProjectId, OtherProjectId}

NoConfDir == [q \in ProjectIds |-> "absent"]

\* config_path of write_config (line 168) and delete_config (line 189)
ConfPathOf(q) == "/etc/nginx/conf.d/project-" \o q \o ".conf"

\* the exit code of nginx -t (line 262) for a directory: non-zero when a file of the
\* directory, whichever project wrote it, does not parse
nginx_test(dir) == IF \E q \in DOMAIN dir : dir[q] = "broken" THEN "exit1" ELSE "exit0"

\* what the environment does to one write or delete: the file operation, the client,
\* whether exec_run("nginx -t") raises, and the outcome of the reload command
DirEnvs == [file_ok : BOOLEAN, client_ok : BOOLEAN, test_raises : BOOLEAN, rel : ExecOutcomes]

\* the calls after the file operation: NginxService.reload() on the directory
ReloadDir(dir, env) ==
    reload(containers[ProxyContainer], env.client_ok,
           IF env.test_raises THEN "error" ELSE nginx_test(dir), env.rel)

\* NginxService.write_config for the project with id q (lines 164-183); accepted says
\* whether nginx parses the rendered content (a server_name or certificate path that
\* nginx rejects makes it broken). The file is written before the reload and stays
\* whatever the reload answers.
WriteConfigIn ==
    /\ Ready
    /\ \E q \in ProjectIds, accepted \in BOOLEAN, env \in DirEnvs :
          LET dir == [conf_dir EXCEPT ![q] = IF accepted THEN "valid" ELSE "broken"]
          IN /\ IF env.file_ok
                THEN /\ conf_dir' = dir
                     /\ ops' = <<Op("open", ConfPathOf(q), "w", "ok")>> \o ReloadDir(dir, env).ops
                     /\ result' = Returned("True")
                ELSE /\ UNCHANGED conf_dir
                     /\ ops' = <<Op("open", ConfPathOf(q), "w", "error")>>
                     /\ result' = Returned("False")
             /\ loc' = [op |-> "write_config", project_id |-> q, accepted |-> accepted]
    /\ pc' = "done"
    /\ caller' = "direct"
    /\ UNCHANGED <<project, containers, networks, volumes, conf, sret, invoked>>
    /\ UNCHANGED <<sortVars, sslVars, handler, credentials, instances, threads, background_tasks, namespace>>

\* NginxService.delete_config(project_id) (lines 185-201): the file is removed, then reload
DeleteConfigIn ==
    /\ Ready
    /\ \E q \in ProjectIds, env \in DirEnvs :
          LET dir == [conf_dir EXCEPT ![q] = "absent"]
          IN /\ IF env.file_ok
                THEN /\ conf_dir' = dir
                     /\ ops' = <<Op("rm -f", ConfPathOf(q), "", "ok")>> \o ReloadDir(dir, env).ops
                     /\ result' = Returned("True")
                ELSE /\ UNCHANGED conf_dir
                     /\ ops' = <<Op("rm -f", ConfPathOf(q), "", "error")>>
                     /\ result' = Returned("False")
             /\ loc' = [op |-> "delete_config", project_id |-> q]
    /\ pc' = "done"
    /\ caller' = "direct"
    /\ UNCHANGED <<project, containers, networks, volumes, conf, sret, invoked>>
    /\ UNCHANGED <<sortVars, sslVars, handler, credentials, instances, threads, background_tasks, namespace>>

(***************************************************************************)
(* The deterministic names across projects (docker_service.py 65, 89,      *)
(* build_service.py 88, service_templates.py 250 and 269,                  *)
(* compose_service.py 122-172, nginx_service.py 257)                       *)
(***************************************************************************)
\* integer project ids, one a decimal prefix of the other
IntegerIds == {1, 12}

\* service and volume names of manifests, some made to look like parts of other names
ResourceNameInputs == {"a", "2-a", "-a"}

\* bound: the resources of projects that exist at one time
MaxResources == 2

\* f"auraops-app-{project.id}" (docker_service.py 65, 100, 215, 243)
app_container_name(id) == "auraops-app-" \o ToString(id)

\* f"auraops-build-{project.id}" (build_service.py 88, 195)
build_container_name(id) == "auraops-build-" \o ToString(id)

\* f"auraops-service-{project.id}" (service_templates.py 250)
service_container_name(id) == "auraops-service-" \o ToString(id)

\* a compose container name without the separator between the id and the service name
compose_container_name_unseparated(id, service_name) == ("auraops-" \o ToString(id)) \o service_name

\* f"{project_prefix}-{service_name}" with project_prefix = f"auraops-{project.id}"
\* (compose_service.py 122, 172)
compose_container_name(id, service_name) == (("auraops-" \o ToString(id)) \o "-") \o service_name

\* f"{project_prefix}-network" (compose_service.py 131)
compose_network_name(id) == ("auraops-" \o ToString(id)) \o "-network"

\* f"{project_prefix}-{volume_name}" (compose_service.py 148) and
\* f"auraops-{project.id}-{vol_name}" (service_templates.py 269): one pattern
named_volume_name(id, volume_name) == (("auraops-" \o ToString(id)) \o "-") \o volume_name

\* the kinds of resources a project's operations name, and the runtime namespace of each
ProjectKinds == {"app", "build", "service", "compose_service", "compose_network", "volume"}
NamespaceOf(kind) ==
    CASE kind \in {"app", "build", "service", "compose_service", "proxy"} -> "containers"
      [] kind \in {"compose_network", "platform_network"} -> "networks"
      [] kind = "volume" -> "volumes"

\* the service or volume names a kind takes ("" for a kind named by the id alone)
NamesOfKind(kind) == IF kind \in {"compose_service", "volume"} THEN ResourceNameInputs ELSE {""}

\* the name the code generates for a (kind, project id, name) triple
RuntimeName(kind, id, n) ==
    CASE kind = "app" -> app_container_name(id)
      [] kind = "build" -> build_container_name(id)
      [] kind = "service" -> service_container_name(id)
      [] kind = "compose_service" -> compose_container_name(id, n)
      [] kind = "compose_network" -> compose_network_name(id)
      [] kind = "volume" -> named_volume_name(id, n)

Resource(kind, id, n) == [kind |-> kind, project_id |-> id, name |-> n, runtime |-> RuntimeName(kind, id, n)]

\* the platform's own container and network (nginx_service.py 257, docker_service.py 89)
PlatformResources ==
    {[kind |-> "proxy", project_id |-> 0, name |-> "", runtime |-> "auraops-proxy"],
     [kind |-> "platform_network", project_id |-> 0, name |-> "", runtime |-> "auraops-network"]}

\* the resources that a call naming r reaches: those under r's name in r's namespace
Under(r) == {x \in namespace : NamespaceOf(x.kind) = NamespaceOf(r.kind) /\ x.runtime = r.runtime}

\* a deploy brings up one of its resources: a container replaces whatever holds its name
\* (get, stop, remove, run); a network or a volume whose name exists is taken as it is
DeployResource ==
    /\ Ready
    /\ \E kind \in ProjectKinds, id \in IntegerIds :
          \E n \in NamesOfKind(kind) :
             LET r == Resource(kind, id, n)
                 after == IF NamespaceOf(kind) = "containers" \/ Under(r) = {}
                          THEN (namespace \ Under(r)) \cup {r}
                          ELSE namespace
             IN /\ Cardinality(after \ PlatformResources) <= MaxResources
                /\ namespace' = after
                /\ loc' = [op |-> "deploy", kind |-> kind, project_id |-> id, name |-> n, touched |-> Under(r)]
    /\ pc' = "done"
    /\ caller' = "direct"
    /\ ops' = <<>>
    /\ result' = NoResult
    /\ UNCHANGED <<project, containers, networks, volumes, conf, sret, invoked>>
    /\ UNCHANGED <<sortVars, sslVars, handler, credentials, instances, threads, background_tasks, conf_dir>>

\* stop_project, remove_project and the build cleanup reach a container by its name
\* (docker_service.py 215-219, 243-250, build_service.py 195-197)
RemoveResource ==
    /\ Ready
    /\ \E kind \in {"app", "build"}, id \in IntegerIds :
          LET r == Resource(kind, id, "")
          IN /\ namespace' = namespace \ Under(r)
             /\ loc' = [op |-> "remove", kind |-> kind, project_id |-> id, name |-> "", touched |-> Under(r)]
    /\ pc' = "done"
    /\ caller' = "direct"
    /\ ops' = <<>>
    /\ result' = NoResult
    /\ UNCHANGED <<project, containers, networks, volumes, conf, sret, invoked>>
    /\ UNCHANGED <<sortVars, sslVars, handler, credentials, instances, threads, background_tasks, conf_dir>>



(***************************************************************************)
(* Specifications, one per component                                       *)
(***************************************************************************)
\* topological_sort alone, on every dependency map of the bound
InitSort ==
    /\ dependencies \in DependencyMaps
    /\ sort_result = NoSort
    /\ domain = IdleDomain
    /\ now = 0
    /\ ssl_call = NoCall
    /\ domains = <<>>
    /\ project = NewProject("docker_image", NoManifest)
    /\ containers = NoContainers
    /\ networks = {}
    /\ volumes = {}
    /\ conf = NoConf
    /\ pc = "idle"
    /\ caller = "direct"
    /\ ops = <<>>
    /\ result = NoResult
    /\ sret = NoResult
    /\ invoked = <<>>
    /\ loc = NoLocals
    /\ handler = "none"
    /\ credentials = NoCredentials
    /\ instances = <<>>
    /\ threads = NoThreads
    /\ background_tasks = <<>>
    /\ conf_dir = NoConfDir
    /\ namespace = PlatformResources

NextSort == TopologicalSort

SpecSort == InitSort /\ [][NextSort]_vars

\* the certificate operations on one domain, created in state none
InitSSL ==
    /\ dependencies = <<>>
    /\ sort_result = NoSort
    /\ domain \in {NewDomain(h) : h \in Hostnames}
    /\ now = 0
    /\ ssl_call = NoCall
    /\ domains = <<>>
    /\ project = NewProject("docker_image", NoManifest)
    /\ containers = NoContainers
    /\ networks = {}
    /\ volumes = {}
    /\ conf = NoConf
    /\ pc = "idle"
    /\ caller = "direct"
    /\ ops = <<>>
    /\ result = NoResult
    /\ sret = NoResult
    /\ invoked = <<>>
    /\ loc = NoLocals
    /\ handler = "none"
    /\ credentials = NoCredentials
    /\ instances = <<>>
    /\ threads = NoThreads
    /\ background_tasks = <<>>
    /\ conf_dir = NoConfDir
    /\ namespace = PlatformResources

NextSSL == Tick \/ IssueCertificate \/ RenewCertificate \/ RevokeCertificate

SpecSSL == InitSSL /\ [][NextSSL]_vars

\* a domain whose certificate was issued at time 0
IssuedDomain(h) == [hostname |-> h, ssl_enabled |-> TRUE, ssl_issued_at |-> 0,
                    ssl_expires_at |-> ValidityDays * TicksPerDay]

\* the proxy configurator, for a project of any recognised type, with the proxy container
\* in any state and a domain with or without a certificate
InitNginx ==
    /\ dependencies = <<>>
    /\ sort_result = NoSort
    /\ domain \in {NewDomain(<<"a", ".", "c">>), IssuedDomain(<<"a", ".", "c">>)}
    /\ now = 0
    /\ ssl_call = NoCall
    /\ domains = <<>>
    /\ project \in {NewProject(t, NoManifest) : t \in RecognisedTypes}
    /\ containers \in {[NoContainers EXCEPT ![ProxyContainer] = st] : st \in ContainerStates}
    /\ networks = {}
    /\ volumes = {}
    /\ conf = NoConf
    /\ pc = "idle"
    /\ caller = "direct"
    /\ ops = <<>>
    /\ result = NoResult
    /\ sret = NoResult
    /\ invoked = <<>>
    /\ loc = NoLocals
    /\ handler = "none"
    /\ credentials = NoCredentials
    /\ instances = <<>>
    /\ threads = NoThreads
    /\ background_tasks = <<>>
    /\ conf_dir = NoConfDir
    /\ namespace = PlatformResources

NextNginx == Reload \/ WriteConfig \/ DeleteConfig

SpecNginx == InitNginx /\ [][NextNginx]_vars

\* the build pipeline called on a static_build project; a container may be left under
\* the build name by an earlier run whose teardown failed
InitBuild ==
    /\ dependencies = <<>>
    /\ sort_result = NoSort
    /\ domain = IdleDomain
    /\ now = 0
    /\ ssl_call = NoCall
    /\ domains = <<>>
    /\ project = NewProject("static_build", NoManifest)
    /\ containers \in {[[NoContainers EXCEPT ![ProxyContainer] = p] EXCEPT ![BuildContainer] = b] :
                          p \in {"absent", "running"}, b \in ContainerStates}
    /\ networks = {}
    /\ volumes = {}
    /\ conf = NoConf
    /\ pc = "idle"
    /\ caller = "direct"
    /\ ops = <<>>
    /\ result = NoResult
    /\ sret = NoResult
    /\ invoked = <<>>
    /\ loc = NoLocals
    /\ handler = "none"
    /\ credentials = NoCredentials
    /\ instances = <<>>
    /\ threads = NoThreads
    /\ background_tasks = <<>>
    /\ conf_dir = NoConfDir
    /\ namespace = PlatformResources

NextBuild == BuildStaticSite \/ BuildSteps

SpecBuild == InitBuild /\ [][NextBuild]_vars

\* the compose orchestrator called on a docker_compose project with any manifest of the
\* model; the network, the volume and the service containers of an earlier deployment
\* may exist
InitCompose ==
    /\ dependencies = <<>>
    /\ sort_result = NoSort
    /\ domain = IdleDomain
    /\ now = 0
    /\ ssl_call = NoCall
    /\ domains = <<>>
    /\ project \in {NewProject("docker_compose", m) : m \in Manifests}
    /\ \E earlier \in BOOLEAN :
          /\ containers = [n \in ContainerNames |->
                              IF earlier /\ n \in {ComposeContainer(s) : s \in ComposeServiceNames}
                              THEN "running" ELSE "absent"]
          /\ networks = IF earlier THEN {Network(ComposeNetwork, 1, ProjectLabel)} ELSE {}
          /\ volumes = IF earlier THEN {Volume(ComposeVolume(v), ProjectLabel) : v \in ComposeVolumeNames}
                       ELSE {}
    /\ conf = NoConf
    /\ pc = "idle"
    /\ caller = "direct"
    /\ ops = <<>>
    /\ result = NoResult
    /\ sret = NoResult
    /\ invoked = <<>>
    /\ loc = NoLocals
    /\ handler = "none"
    /\ credentials = NoCredentials
    /\ instances = <<>>
    /\ threads = NoThreads
    /\ background_tasks = <<>>
    /\ conf_dir = NoConfDir
    /\ namespace = PlatformResources

NextCompose == DeployComposeProject \/ ComposeSteps

SpecCompose == InitCompose /\ [][NextCompose]_vars

\* deployment_type values that create_project stores (projects.py 73, 102: any string):
\* the five the dispatcher knows and three it does not
StoredTypes == RecognisedTypes \cup {"image", "compose", "kubernetes"}

\* manifests of the projects that the dispatcher deploys: services with an image, with
\* no dependency or one on B (so independent, dependent and self-dependent services),
\* with and without a volume; and the manifests that do not parse
DispatchManifests ==
    {m \in Manifests :
        /\ \A i \in 1..Len(m.services) :
              /\ m.services[i].kind = "image"
              /\ m.services[i].links = <<>>
              /\ m.services[i].depends_on \in {<<>>, <<"B">>}
        /\ Len(m.services) = 2 => m.services[1].name = "A"}

\* the dispatcher called on a stored project of any type; an app or service container
\* of an earlier deployment may be running
InitDeploy ==
    /\ dependencies = <<>>
    /\ sort_result = NoSort
    /\ domain = IdleDomain
    /\ now = 0
    /\ ssl_call = NoCall
    /\ domains = <<>>
    /\ project \in {[NewProject(t, m) EXCEPT !.repo_url = r] :
                       t \in StoredTypes, m \in DispatchManifests, r \in RepoUrls}
    /\ project.deployment_type \notin {"docker_compose", "compose"} => project.compose_file = NoManifest
    /\ project.deployment_type # "service" => project.repo_url = ""
    /\ \E earlier \in BOOLEAN :
          containers = [n \in ContainerNames |->
                           IF n = ProxyContainer \/ (earlier /\ n \in {AppContainer, ServiceContainer})
                           THEN "running" ELSE "absent"]
    /\ networks = {}
    /\ volumes = {}
    /\ conf = NoConf
    /\ pc = "idle"
    /\ caller = "direct"
    /\ ops = <<>>
    /\ result = NoResult
    /\ sret = NoResult
    /\ invoked = <<>>
    /\ loc = NoLocals
    /\ handler = "none"
    /\ credentials = NoCredentials
    /\ instances = <<>>
    /\ threads = NoThreads
    /\ background_tasks = <<>>
    /\ conf_dir = NoConfDir
    /\ namespace = PlatformResources

NextDeploy ==
    \/ DeployProject \/ DispatchReturn
    \/ BuildSteps \/ ImageSteps \/ FileSteps \/ ComposeSteps \/ ServiceSteps

SpecDeploy == InitDeploy /\ [][NextDeploy]_vars

\* the auto-renew sweep over any domains table of the model, with time passing
InitSweep ==
    /\ dependencies = <<>>
    /\ sort_result = NoSort
    /\ domain = IdleDomain
    /\ now = 0
    /\ ssl_call = NoCall
    /\ domains \in DomainTables
    /\ project = NewProject("docker_image", NoManifest)
    /\ containers = NoContainers
    /\ networks = {}
    /\ volumes = {}
    /\ conf = NoConf
    /\ pc = "idle"
    /\ caller = "direct"
    /\ ops = <<>>
    /\ result = NoResult
    /\ sret = NoResult
    /\ invoked = <<>>
    /\ loc = NoLocals
    /\ handler = "none"
    /\ credentials = NoCredentials
    /\ instances = <<>>
    /\ threads = NoThreads
    /\ background_tasks = <<>>
    /\ conf_dir = NoConfDir
    /\ namespace = PlatformResources

NextSweep == Tick \/ AutoRenew \/ SweepQuery \/ SweepRenew \/ SweepEnd \/ SweepExcept

SpecSweep == InitSweep /\ [][NextSweep]_vars

\* the variables a user gives a managed service: none, one that is no secret, or the
\* secret itself
UserEnvs == {{}, {<<"TZ", UserValue>>}, {<<SecretVar, UserValue>>}}

\* the request handlers on one project: a managed service (created by the service
\* endpoint, or stored through the projects endpoint), a static build or an image
InitApi ==
    /\ dependencies = <<>>
    /\ sort_result = NoSort
    /\ domain = IdleDomain
    /\ now = 0
    /\ ssl_call = NoCall
    /\ domains = <<>>
    /\ project \in {[NewProject("service", NoManifest) EXCEPT !.repo_url = r, !.env_vars = e] :
                       r \in RepoUrls, e \in UserEnvs}
                     \cup {NewProject(t, NoManifest) : t \in {"static_build", "docker_image"}}
    /\ containers = [NoContainers EXCEPT ![ProxyContainer] = "running"]
    /\ networks = {}
    /\ volumes = {}
    /\ conf = NoConf
    /\ pc = "idle"
    /\ caller = "direct"
    /\ ops = <<>>
    /\ result = NoResult
    /\ sret = NoResult
    /\ invoked = <<>>
    /\ loc = NoLocals
    /\ handler = "none"
    /\ credentials = NoCredentials
    /\ instances = <<>>
    /\ threads = NoThreads
    /\ background_tasks = <<>>
    /\ conf_dir = NoConfDir
    /\ namespace = PlatformResources

NextApi ==
    \/ ApiDeploy \/ ApiDeployService \/ ApiRestart \/ ApiStop \/ HandlerReturn
    \/ DispatchReturn \/ BuildSteps \/ ImageSteps \/ ServiceSteps

SpecApi == InitApi /\ [][NextApi]_vars

\* a manifest with two image services and the declared volume
FullManifest ==
    CHOOSE m \in Manifests :
       /\ m.yaml_ok /\ m.has_services
       /\ Len(m.services) = 2
       /\ \A i \in 1..2 : m.services[i].kind = "image" /\ m.services[i].links = <<>>
                          /\ m.services[i].depends_on = <<>>
       /\ m.volumes # <<>>

\* removal, for a compose project, a static site and a managed service, with or without
\* the resources of an earlier deployment; compose deployments may follow a removal
InitRemove ==
    /\ dependencies = <<>>
    /\ sort_result = NoSort
    /\ domain = IdleDomain
    /\ now = 0
    /\ ssl_call = NoCall
    /\ domains = <<>>
    /\ project \in {NewProject("docker_compose", FullManifest), NewProject("static_build", NoManifest),
                    [NewProject("service", NoManifest) EXCEPT !.repo_url = "Redis"]}
    /\ \E earlier \in BOOLEAN :
          /\ containers = [n \in ContainerNames |->
                              IF n = ProxyContainer THEN "running"
                              ELSE IF ~earlier THEN "absent"
                              ELSE IF project.deployment_type = "docker_compose"
                              THEN (IF n \in {ComposeContainer(s) : s \in ComposeServiceNames}
                                    THEN "running" ELSE "absent")
                              ELSE (IF n = AppContainer THEN "running" ELSE "absent")]
          /\ networks = IF earlier /\ project.deployment_type = "docker_compose"
                        THEN {Network(ComposeNetwork, 1, ProjectLabel)} ELSE {}
          /\ volumes = IF ~earlier THEN {}
                       ELSE IF project.deployment_type = "docker_compose"
                       THEN {Volume(ComposeVolume(v), ProjectLabel) : v \in ComposeVolumeNames}
                       ELSE IF project.deployment_type = "service"
                       THEN {Volume(ServiceVolume("data"), NoLabel)}
                       ELSE {}
    /\ conf \in {NoConf, generate_config(project, NoDomain)}
    /\ pc = "idle"
    /\ caller = "direct"
    /\ ops = <<>>
    /\ result = NoResult
    /\ sret = NoResult
    /\ invoked = <<>>
    /\ loc = NoLocals
    /\ handler = "none"
    /\ credentials = NoCredentials
    /\ instances = <<>>
    /\ threads = NoThreads
    /\ background_tasks = <<>>
    /\ conf_dir = NoConfDir
    /\ namespace = PlatformResources

\* deploy_compose_project is called for compose projects only
DeployComposeAgain == project.deployment_type = "docker_compose" /\ DeployComposeProject

NextRemove == RemoveComposeProject \/ RemoveProject \/ DeployComposeAgain \/ ComposeSteps

SpecRemove == InitRemove /\ [][NextRemove]_vars


\* two requests for one project, with or without a container of an earlier deployment
InitRace ==
    /\ dependencies = <<>>
    /\ sort_result = NoSort
    /\ domain = IdleDomain
    /\ now = 0
    /\ ssl_call = NoCall
    /\ domains = <<>>
    /\ project \in {NewProject(t, NoManifest) : t \in {"docker_image", "dockerfile"}}
    /\ containers = [NoContainers EXCEPT ![ProxyContainer] = "running"]
    /\ networks = {}
    /\ volumes = {}
    /\ conf = NoConf
    /\ pc = "idle"
    /\ caller = "direct"
    /\ ops = <<>>
    /\ result = NoResult
    /\ sret = NoResult
    /\ invoked = <<>>
    /\ loc = NoLocals
    /\ handler = "none"
    /\ credentials = NoCredentials
    /\ instances \in {<<>>, <<"running">>, <<"exited">>}
    /\ threads = [t \in Requests |-> IdleThread]
    /\ background_tasks = <<>>
    /\ conf_dir = NoConfDir
    /\ namespace = PlatformResources

NextRace ==
    \/ \E t \in Requests : RaceBegin(t) /\ RaceFrame
    \/ \E t \in Requests : RaceBuild(t) /\ RaceFrame
    \/ \E t \in Requests : RaceGet(t) /\ RaceFrame
    \/ \E t \in Requests : RaceStop(t) /\ RaceFrame
    \/ \E t \in Requests : RaceRemove(t) /\ RaceFrame
    \/ \E t \in Requests : RacePull(t) /\ RaceFrame
    \/ \E t \in Requests : RaceRun(t) /\ RaceFrame
    \/ \E t \in Requests : RaceConfig(t) /\ RaceFrame

SpecRace == InitRace /\ [][NextRace]_vars


\* the proxy configurator next to the certificate operations on the project's domain:
\* the TLS state of the domain changes between the writes of the configuration
InitTls ==
    /\ dependencies = <<>>
    /\ sort_result = NoSort
    /\ domain = NewDomain(<<"a", ".", "c">>)
    /\ now = 0
    /\ ssl_call = NoCall
    /\ domains = <<>>
    /\ project \in {NewProject(t, NoManifest) : t \in {"static_build", "docker_image"}}
    /\ containers \in {[NoContainers EXCEPT ![ProxyContainer] = st] : st \in {"absent", "running"}}
    /\ networks = {}
    /\ volumes = {}
    /\ conf = NoConf
    /\ pc = "idle"
    /\ caller = "direct"
    /\ ops = <<>>
    /\ result = NoResult
    /\ sret = NoResult
    /\ invoked = <<>>
    /\ loc = NoLocals
    /\ handler = "none"
    /\ credentials = NoCredentials
    /\ instances = <<>>
    /\ threads = NoThreads
    /\ background_tasks = <<>>
    /\ conf_dir = NoConfDir
    /\ namespace = PlatformResources

NextTls == IssueCertificate \/ RevokeCertificate \/ WriteConfig \/ DeleteConfig

SpecTls == InitTls /\ [][NextTls]_vars


\* webhook requests for a project of any recognised type in any status a finished
\* request leaves; the detached tasks are run by the server, each eventually
InitWebhook ==
    /\ dependencies = <<>>
    /\ sort_result = NoSort
    /\ domain = IdleDomain
    /\ now = 0
    /\ ssl_call = NoCall
    /\ domains = <<>>
    /\ project \in {[NewProject(t, NoManifest) EXCEPT !.status = st] :
                       t \in RecognisedTypes, st \in {"stopped", "running", "failed"}}
    /\ containers \in {[NoContainers EXCEPT ![ProxyContainer] = "running", ![AppContainer] = st] :
                          st \in {"absent", "running"}}
    /\ networks = {}
    /\ volumes = {}
    /\ conf = NoConf
    /\ pc = "idle"
    /\ caller = "direct"
    /\ ops = <<>>
    /\ result = NoResult
    /\ sret = NoResult
    /\ invoked = <<>>
    /\ loc = NoLocals
    /\ handler = "none"
    /\ credentials = NoCredentials
    /\ instances = <<>>
    /\ threads = NoThreads
    /\ background_tasks = <<>>
    /\ conf_dir = NoConfDir
    /\ namespace = PlatformResources

NextWebhook == TriggerDeploy \/ HandleDeployment

SpecWebhook == InitWebhook /\ [][NextWebhook]_vars /\ WF_vars(HandleDeployment)


\* two build requests for one static_build project, with or without a build
\* container left by an earlier build
InitBuildRace ==
    /\ dependencies = <<>>
    /\ sort_result = NoSort
    /\ domain = IdleDomain
    /\ now = 0
    /\ ssl_call = NoCall
    /\ domains = <<>>
    /\ project = NewProject("static_build", NoManifest)
    /\ containers = [NoContainers EXCEPT ![ProxyContainer] = "running"]
    /\ networks = {}
    /\ volumes = {}
    /\ conf = NoConf
    /\ pc = "idle"
    /\ caller = "direct"
    /\ ops = <<>>
    /\ result = NoResult
    /\ sret = NoResult
    /\ invoked = <<>>
    /\ loc = NoLocals
    /\ handler = "none"
    /\ credentials = NoCredentials
    /\ instances \in {<<>>, <<"running">>, <<"exited">>}
    /\ threads = [t \in Requests |-> IdleThread]
    /\ background_tasks = <<>>
    /\ conf_dir = NoConfDir
    /\ namespace = PlatformResources

NextBuildRace ==
    \/ \E t \in Requests : BuildRaceBegin(t) /\ RaceFrame
    \/ \E t \in Requests : BuildRaceRun(t) /\ RaceFrame
    \/ \E t \in Requests : BuildRaceClone(t) /\ RaceFrame
    \/ \E t \in Requests : BuildRaceStreamed(t) /\ RaceFrame
    \/ \E t \in Requests : BuildRaceCopy(t) /\ RaceFrame
    \/ \E t \in Requests : BuildRaceStop(t) /\ RaceFrame
    \/ \E t \in Requests : BuildRaceRemove(t) /\ RaceFrame
    \/ \E t \in Requests : BuildRaceNginx(t) /\ RaceFrame
    \/ \E t \in Requests : BuildRaceExceptGet(t) /\ RaceFrame
    \/ \E t \in Requests : BuildRaceExceptStop(t) /\ RaceFrame
    \/ \E t \in Requests : BuildRaceExceptRemove(t) /\ RaceFrame

SpecBuildRace == InitBuildRace /\ [][NextBuildRace]_vars


\* writes and deletes of the configuration files of two projects in one directory
InitConfDir ==
    /\ dependencies = <<>>
    /\ sort_result = NoSort
    /\ domain = IdleDomain
    /\ now = 0
    /\ ssl_call = NoCall
    /\ domains = <<>>
    /\ project = NewProject("docker_image", NoManifest)
    /\ containers \in {[NoContainers EXCEPT ![ProxyContainer] = st] : st \in {"absent", "running"}}
    /\ networks = {}
    /\ volumes = {}
    /\ conf = NoConf
    /\ pc = "idle"
    /\ caller = "direct"
    /\ ops = <<>>
    /\ result = NoResult
    /\ sret = NoResult
    /\ invoked = <<>>
    /\ loc = NoLocals
    /\ handler = "none"
    /\ credentials = NoCredentials
    /\ instances = <<>>
    /\ threads = NoThreads
    /\ background_tasks = <<>>
    /\ conf_dir = NoConfDir
    /\ namespace = PlatformResources

NextConfDir == WriteConfigIn \/ DeleteConfigIn

SpecConfDir == InitConfDir /\ [][NextConfDir]_vars


\* deploys and removals of the resources of several projects against one runtime
InitNames ==
    /\ dependencies = <<>>
    /\ sort_result = NoSort
    /\ domain = IdleDomain
    /\ now = 0
    /\ ssl_call = NoCall
    /\ domains = <<>>
    /\ project = NewProject("docker_image", NoManifest)
    /\ containers = [NoContainers EXCEPT ![ProxyContainer] = "running"]
    /\ networks = {}
    /\ volumes = {}
    /\ conf = NoConf
    /\ pc = "idle"
    /\ caller = "direct"
    /\ ops = <<>>
    /\ result = NoResult
    /\ sret = NoResult
    /\ invoked = <<>>
    /\ loc = NoLocals
    /\ handler = "none"
    /\ credentials = NoCredentials
    /\ instances = <<>>
    /\ threads = NoThreads
    /\ background_tasks = <<>>
    /\ conf_dir = NoConfDir
    /\ namespace = PlatformResources

NextNames == DeployResource \/ RemoveResource

SpecNames == InitNames /\ [][NextNames]_vars


(***************************************************************************)
(* The claims                                                              *)
(***************************************************************************)
\* the dependency relation as a set of edges <<service, dependency>>
Edges(deps) == {<<deps[i].name, d>> : i \in 1..Len(deps), d \in ServiceNames} \cap
               {e \in ServiceNames \X ServiceNames : \E i \in 1..Len(deps) : deps[i].name = e[1] /\ InList(e[2], deps[i].deps)}

\* nodes reachable from x in at least one step, by at most n steps
RECURSIVE ReachFrom(_, _, _)
ReachFrom(E, X, n) ==
    IF n = 0 THEN {}
    ELSE LET step == {e[2] : e \in {f \in E : f[1] \in X}}
         IN step \cup ReachFrom(E, step, n - 1)

Cyclic(deps) == \E x \in ServiceNames : x \in ReachFrom(Edges(deps), {x}, Cardinality(ServiceNames))

\* C1: for every acyclic dependency map topological_sort returns, without raising,
\* an order holding every declared service and every referenced target exactly once
\* in which each service comes after all the services it depends on.
C1_SortOrdersAcyclicMaps ==
    (sort_result.called /\ ~Cyclic(dependencies)) =>
        /\ ~sort_result.raised
        /\ Len(sort_result.order) = Cardinality(AllServices(dependencies))
        /\ Range(sort_result.order) = AllServices(dependencies)
        /\ \A e \in Edges(dependencies) :
              IndexOf(e[2], sort_result.order) < IndexOf(e[1], sort_result.order)

TlsState(d) == <<d.ssl_enabled, d.ssl_issued_at, d.ssl_expires_at>>

\* C8: issue_certificate on a hostname that begins with "*." reports failure, never runs
\* the ACME tool and leaves ssl_enabled, ssl_issued_at and ssl_expires_at as they were,
\* whatever the TLS state of the domain was.
C8_WildcardIssueRejected ==
    (ssl_call.op = "issue" /\ StartsWith(ssl_call.pre.hostname, <<"*", ".">>)) =>
        /\ ssl_call.ret = FALSE
        /\ ssl_call.tool = "none"
        /\ TlsState(domain) = TlsState(ssl_call.pre)

\* a wildcard domain whose TLS state is not none (a renewal succeeded) was refused issuance
C8_Witness ==
    /\ ssl_call.op = "issue"
    /\ StartsWith(ssl_call.pre.hostname, <<"*", ".">>)
    /\ ssl_call.pre.ssl_expires_at # NoTime

\* C9: when the ACME tool exits non-zero or its invocation raises, issue, renew and
\* revoke report failure and leave ssl_enabled, ssl_issued_at and ssl_expires_at exactly
\* as they were before the call.
C9_ToolFailureLeavesTlsState ==
    (ssl_call.op \in {"issue", "renew", "revoke"} /\ ssl_call.tool \in {"nonzero", "raise"}) =>
        /\ ssl_call.ret = FALSE
        /\ TlsState(domain) = TlsState(ssl_call.pre)

\* a revoke whose tool invocation raised, on a domain with an issued certificate
C9_Witness ==
    /\ ssl_call.op = "revoke"
    /\ ssl_call.tool = "raise"
    /\ ssl_call.pre.ssl_enabled
    /\ domain.ssl_enabled

StateNone(d) == ~d.ssl_enabled /\ d.ssl_issued_at = NoTime /\ d.ssl_expires_at = NoTime
StateIssued(d) == d.ssl_enabled /\ d.ssl_issued_at # NoTime /\ d.ssl_expires_at # NoTime

\* C10: starting from state none, after any sequence of issue, renew and revoke calls
\* with any tool outcomes the domain is in state none or in state issued.
C10_TwoStateMachine == StateNone(domain) \/ StateIssued(domain)

IsValidation(o) == o.call = "exec_run" /\ o.target = ProxyContainer /\ o.arg = "nginx -t"
IsReloadSignal(o) == o.call = "exec_run" /\ o.target = ProxyContainer /\ o.arg = "nginx -s reload"

\* C5: in one invocation the reload signal is issued to the proxy only after the
\* syntax validation of that invocation exited with code zero; when the validation
\* fails or the proxy container is not found, no reload signal is issued and reload
\* returns failure.
C5_ReloadOnlyAfterValidation ==
    /\ \A i \in 1..Len(ops) :
          IsReloadSignal(ops[i]) => \E j \in 1..(i-1) : IsValidation(ops[j]) /\ ops[j].out = "exit0"
    /\ (loc.op = "reload" /\ pc = "done"
          /\ \E j \in 1..Len(ops) : \/ IsValidation(ops[j]) /\ ops[j].out # "exit0"
                                    \/ ops[j].call = "containers.get" /\ ops[j].out = "notfound")
       => /\ \A i \in 1..Len(ops) : ~IsReloadSignal(ops[i])
          /\ result = Returned("False")

\* a reload whose validation failed with a non-zero exit code
C5_Witness ==
    /\ loc.op = "reload"
    /\ pc = "done"
    /\ \E j \in 1..Len(ops) : IsValidation(ops[j]) /\ ops[j].out = "exit1"
    /\ result = Returned("False")
\* build_static_site has returned (to the outside caller or to the dispatcher)
BuildReturned ==
    /\ loc.op = "build_static_site"
    /\ \/ caller = "direct" /\ pc = "done" /\ result.kind = "return"
       \/ caller = "dispatcher" /\ pc \in {"d_return", "done"} /\ sret.kind = "return"

BuildStatus == IF caller = "direct" THEN result.status ELSE sret.status

IsTeardownCall(o) == o.target = BuildContainer /\ o.call \in {"stop", "remove"}

\* C6: whenever build_static_site returns after it acquired the build container, on the
\* success path and on the failure path of any later step, the container
\* auraops-build-<project id> has been stopped and removed, given that the stop and
\* remove calls of the runtime succeed.
C6_BuildContainerRemoved ==
    (BuildReturned /\ loc.acquired /\ \A i \in 1..Len(ops) : IsTeardownCall(ops[i]) => ops[i].out = "ok")
        => containers[BuildContainer] = "absent"

\* a build that failed in the fetch step after acquiring its container, and returned
C6_Witness ==
    /\ BuildReturned
    /\ loc.acquired
    /\ BuildStatus = "failed"
    /\ \E i \in 1..Len(ops) : ops[i].arg = "fetch" /\ ops[i].out = "exit1"
    /\ \E i \in 1..Len(ops) : ops[i] = Op("remove", BuildContainer, "", "ok")
    /\ containers[BuildContainer] = "absent"

\* the pipeline steps in their order; the teardown is not one of them
StepNo(o) ==
    IF o.call = "exec_run" /\ o.target = BuildContainer /\ o.arg = "fetch" THEN 1
    ELSE IF o.call = "exec_run" /\ o.target = BuildContainer /\ o.arg = "install" THEN 2
    ELSE IF o.call = "exec_run" /\ o.target = BuildContainer /\ o.arg = "build" THEN 3
    ELSE IF o.call = "os.system" /\ o.arg = "copy" THEN 4
    ELSE IF o.call = "open" /\ o.target = ConfPath THEN 5
    ELSE 0

\* C7: if the command of fetch, install, build or copy exits non-zero, none of the later
\* pipeline steps is executed, the returned status is failed and the last entry of the
\* returned log is tagged [ERROR].
C7_FailedStepStopsPipeline ==
    (BuildReturned /\ \E i \in 1..Len(ops) : StepNo(ops[i]) \in 1..4 /\ ops[i].out = "exit1")
        => /\ \A i, j \in 1..Len(ops) :
                 (StepNo(ops[i]) \in 1..4 /\ ops[i].out = "exit1" /\ i < j) => StepNo(ops[j]) = 0
           /\ BuildStatus = "failed"
           /\ loc.build_logs[Len(loc.build_logs)].tag = "ERROR"

\* deploy_compose_project has ended with a return value
ComposeReturned ==
    /\ loc.op = "deploy_compose_project"
    /\ \/ caller = "direct" /\ pc = "done" /\ result.kind = "return"
       \/ caller = "dispatcher" /\ pc \in {"d_return", "done"} /\ sret.kind = "return"

ComposeStatus == IF caller = "direct" THEN result.status ELSE sret.status

\* deploy_compose_project has ended, with a return value or with an exception
ComposeEnded ==
    /\ loc.op = "deploy_compose_project"
    /\ \/ caller = "direct" /\ pc = "done"
       \/ caller = "dispatcher" /\ pc \in {"d_return", "done"}

\* the manifest parses and its dependency graph (depends_on plus links) has a cycle
CyclicManifest ==
    /\ project.compose_file.yaml_ok
    /\ project.compose_file.has_services
    /\ Cyclic(get_service_dependencies(project.compose_file.services))

IsServiceContainerCall(o) ==
    /\ o.target \in {ComposeContainer(s) : s \in ComposeServiceNames}
    /\ o.call \in {"stop", "remove", "containers.run"}

DeployEnded == caller = "dispatcher" /\ pc = "done"

\* deploy_project has chosen its branch
Dispatched == caller = "dispatcher" /\ pc # "idle"

\* C3: deploy_project called with a deployment_type outside the recognised set returns a
\* result with status failed and a message, having invoked no strategy and made no runtime
\* call; it never raises to its caller, and an exception raised by a strategy comes back
\* as a failed result.
C3_DispatcherNeverRaises ==
    /\ Dispatched /\ project.deployment_type \notin RecognisedTypes
          => invoked = <<>> /\ ops = <<>>
    /\ DeployEnded
          => /\ result.kind = "return"
             /\ "message" \in result.keys
             /\ project.deployment_type \notin RecognisedTypes => result.status = "failed"
             /\ sret.kind = "raise" => result.status = "failed"

\* an unrecognised type was answered with failed
C3_Witness ==
    /\ DeployEnded
    /\ project.deployment_type = "kubernetes"
    /\ result = Result("failed", {})
    /\ invoked = <<>>

\* a strategy raised (here the managed-service deployer, for an unknown service type) and
\* the caller got a failed result
C3_WitnessStrategyRaise ==
    /\ DeployEnded
    /\ invoked = <<"_deploy_service">>
    /\ sret.kind = "raise"
    /\ result.status = "failed"

\* the strategy that the spec pairs with a deployment type, under the spec's spelling
StrategyOfSpecName(t) ==
    IF t = "image" THEN "_deploy_docker_image"
    ELSE IF t = "dockerfile" THEN "_deploy_dockerfile"
    ELSE IF t = "compose" THEN "_deploy_compose"
    ELSE IF t = "static_build" THEN "_deploy_static_build"
    ELSE "_deploy_service"

\* C4 as stated: for each deployment_type in {image, dockerfile, compose, static_build,
\* service}, deploy invokes exactly the corresponding strategy and no other.
C4_AsStated ==
    (Dispatched /\ project.deployment_type \in {"image", "dockerfile", "compose", "static_build", "service"})
        => invoked = <<StrategyOfSpecName(project.deployment_type)>>

\* the strategy paired with a deployment type, under the spelling of the stored values
StrategyOfType(t) ==
    IF t = "docker_image" THEN "_deploy_docker_image"
    ELSE IF t = "dockerfile" THEN "_deploy_dockerfile"
    ELSE IF t = "docker_compose" THEN "_deploy_compose"
    ELSE IF t = "static_build" THEN "_deploy_static_build"
    ELSE "_deploy_service"

\* the operation that runs for a strategy
OperationOf(st) ==
    IF st = "_deploy_static_build" THEN "build_static_site"
    ELSE IF st = "_deploy_compose" THEN "deploy_compose_project"
    ELSE IF st = "_deploy_service" THEN "deploy_service"
    ELSE st

\* C4, amended: for each deployment_type in {docker_image, dockerfile, docker_compose,
\* static_build, service}, deploy invokes exactly the corresponding strategy (direct run,
\* source build, compose orchestrator, build pipeline, managed service deployer) and no
\* other, and it is that strategy's operation that runs.
C4_EachTypeItsStrategy ==
    (Dispatched /\ project.deployment_type \in {"docker_image", "dockerfile", "docker_compose", "static_build", "service"})
        => /\ invoked = <<StrategyOfType(project.deployment_type)>>
           /\ loc.op = OperationOf(StrategyOfType(project.deployment_type))

\* a docker_image project went through the direct-run strategy to a running container
C4_Witness ==
    /\ DeployEnded
    /\ project.deployment_type = "docker_image"
    /\ invoked = <<"_deploy_docker_image">>
    /\ InList(Op("containers.run", AppContainer, "", "ok"), ops)
    /\ result.status = "success"

\* C11: after a successful issue_certificate for a concrete hostname ssl_enabled is true
\* and ssl_expires_at equals ssl_issued_at plus exactly 90 days; after a successful
\* renew_certificate ssl_expires_at equals the time of the renewal plus exactly 90 days.
C11_ExpiryExactlyNinetyDays ==
    /\ (ssl_call.op = "issue" /\ ssl_call.ret)
          => /\ domain.ssl_enabled
             /\ domain.ssl_expires_at = domain.ssl_issued_at + ValidityDays * TicksPerDay
    /\ (ssl_call.op = "renew" /\ ssl_call.ret)
          => domain.ssl_expires_at = ssl_call.at + ValidityDays * TicksPerDay

\* the sweep has ended
SweepEnded == loc.op = "auto_renew_expiring_certificates" /\ pc = "done"

\* the sweep made a renewal attempt for the row at position k
Attempted(k) == \E i \in 1..Len(ops) : ops[i].call = "certbot renew" /\ ops[i].target = Join(domains[k].hostname)

\* C12: in the auto-renew sweep every selected domain gets its own renewal attempt: a
\* failure while renewing or persisting one domain (tool failure, exception, commit
\* failure) never prevents the attempt of the domains that come after it in the sweep.
C12_EverySelectedDomainAttempted ==
    SweepEnded => \A i \in 1..Len(loc.expiring_soon) : Attempted(loc.expiring_soon[i])

\* C13: the sweep attempts renewal for exactly the domains that are enabled and whose
\* ssl_expires_at is no later than 30 days from the time of the sweep's query: an enabled
\* domain 10 days from expiry is renewed, an enabled one 60 days from expiry is not, one
\* that is not enabled never is.  (While the sweep runs, the rows it has not reached are
\* as they were at the query; the selection is kept in expiring_soon.)
C13_SweepRenewsExactlySelected ==
    (SweepEnded /\ InList(Op("query", "domains", "", "ok"), ops))
        => \A k \in 1..Len(domains) : Attempted(k) <=> InList(k, loc.expiring_soon)

\* C14: for a project whose user never supplied the secret variable, the generated secret
\* that one deploy_service invocation runs the service with differs from the secret of
\* every earlier deploy_service invocation for the project, the redeploy of the restart
\* operation included.
C14_SecretsNeverReused ==
    (\A i \in 1..Len(credentials.used) : credentials.used[i] # UserValue)
        => \A i, j \in 1..Len(credentials.used) : i # j => credentials.used[i] # credentials.used[j]

\* a change of the project's status that the chain stopped|failed -> deploying|building
\* -> running|failed allows: an attempt starts (or a stop request sets stopped) while no
\* attempt is in progress, or the attempt in progress moves forward
StatusStepAllowed ==
    \/ handler = "none" /\ project.status' \in {"deploying", "building", "stopped"}
    \/ project.status = "deploying" /\ project.status' = "building"
    \/ project.status \in {"deploying", "building"} /\ project.status' \in {"running", "failed"}

\* a deploy attempt made through a request handler has ended with a result
AttemptEnded ==
    /\ handler = "none"
    /\ pc = "done"
    /\ loc.op # "stop_project"
    /\ result.kind = "return"

\* C16: within one deploy attempt the status only moves forward along stopped|failed ->
\* deploying|building -> running|failed: never from running or failed back to deploying
\* or building, never to running or failed without having been deploying or building in
\* the attempt, and it ends as running exactly when the returned result is success; for
\* every deployment type, the static build path and the managed service deploy and
\* restart paths included.
C16_StatusMovesForward ==
    /\ [](AttemptEnded => (project.status = "running" <=> result.status = "success"))
    /\ [][project.status' # project.status => StatusStepAllowed]_vars

\* the services of the deploy order that have an image, in that order
ImageServices ==
    FilterIn(loc.deploy_order,
             {s \in ComposeServiceNames :
                 /\ ServiceIndex(loc.services, s) # 0
                 /\ loc.services[ServiceIndex(loc.services, s)].kind = "image"})

\* client.containers.run was called for service s in this invocation
RunAttempted(s) ==
    \E i \in 1..Len(ops) : ops[i].call = "containers.run" /\ ops[i].target = ComposeContainer(s)

\* the container of service s was started by this invocation
StartedHere(s) == InList(Op("containers.run", ComposeContainer(s), ProjectLabel, "ok"), ops)

\* a stop, remove or run of a service container failed in this invocation
ServiceOperationFailed ==
    \E i \in 1..Len(ops) : IsServiceContainerCall(ops[i]) /\ ops[i].out # "ok"

\* C17: when deploy_compose_project ends after it has computed its deploy order, every
\* service of the order that has an image had its container run attempted, whatever
\* failed for the services before it (stop or remove of the old container, or the run),
\* and the result is a success whose deployed_services are exactly the services whose
\* container this invocation started.
C17_ServiceFailureDoesNotStopOrchestration ==
    (ComposeEnded /\ loc.deploy_order # <<>>)
        => /\ \A k \in 1..Len(ImageServices) : RunAttempted(ImageServices[k])
           /\ ComposeReturned
           /\ ComposeStatus = "success"
           /\ "deployed_services" \in (IF caller = "direct" THEN result.keys ELSE sret.keys)
           /\ Range(loc.deployed_containers)
                  = {ComposeContainer(s) : s \in {t \in ComposeServiceNames : StartedHere(t)}}

\* the part of C17 that the code keeps: a failed run of one service leaves the later
\* services attempted
C17_RunFailureIsIsolated ==
    (ComposeEnded /\ loc.deploy_order # <<>>
       /\ \A i \in 1..Len(ops) : (ops[i].call \in {"stop", "remove"}) => ops[i].out = "ok")
        => /\ \A k \in 1..Len(ImageServices) : RunAttempted(ImageServices[k])
           /\ ComposeStatus = "success"

\* no two networks and no two volumes of one name
OneResourcePerName ==
    /\ \A n1, n2 \in networks : n1.name = n2.name => n1 = n2
    /\ \A v1, v2 \in volumes : v1.name = v2.name => v1 = v2

\* a step whose last call found its resource in place (the network fetched after
\* "already exists", a volume created or fetched under a name that exists) does not go
\* to the except branch of the deployment
ExistingIsSuccess ==
    (ops' # ops /\ ops' # <<>>
                /\ \/ ops'[Len(ops')] = Op("networks.get", ComposeNetwork, "", "ok")
                   \/ /\ ops'[Len(ops')].call = "volumes.create"
                      /\ ops'[Len(ops')].out \in {"exists", "same"}
                   \/ ops'[Len(ops')] \in {Op("volumes.get", v, "", "ok") : v \in VolumeNames})
        => pc' \notin {"c_except", "s_except"}

\* a step leaves the networks and volumes of every name that exists as they are
ExistingResourcesKept ==
    /\ \A n \in networks : NetworksNamed(n.name)' = NetworksNamed(n.name)
    /\ \A v \in volumes : {w \in volumes' : w.name = v.name} = {v}

\* C18: creating the project's network and volumes is idempotent.  A deployment that
\* finds its network or a declared volume in place goes on as after a creation, there is
\* never more than one network or volume of a name, and a deployment changes nothing
\* about the networks and volumes of a name that exists, so that a second deployment
\* ends with the networks and volumes of the first.
C18_ResourceCreationIdempotent ==
    /\ []OneResourcePerName
    /\ [][ExistingIsSuccess /\ ExistingResourcesKept]_vars

\* the part of C18 that holds whatever the runtime does with names: an existing
\* resource never fails the deployment, and volumes are never duplicated or replaced
C18_VolumesIdempotent ==
    /\ [](\A v1, v2 \in volumes : v1.name = v2.name => v1 = v2)
    /\ [][ExistingIsSuccess /\ \A v \in volumes : {w \in volumes' : w.name = v.name} = {v}]_vars

\* the networks and volumes under the names that a compose deployment of the project uses
ComposeNetworks == NetworksNamed(ComposeNetwork)
ComposeVolumes == {v \in volumes : v.name \in {ComposeVolume(d) : d \in Range(loc.volume_names)}}

C19_WitnessCreated ==
    /\ ComposeReturned
    /\ ComposeStatus = "success"
    /\ InList(Op("networks.create", ComposeNetwork, ProjectLabel, "ok"), ops)
    /\ \E i \in 1..Len(ops) : ops[i].call = "volumes.create" /\ ops[i].out = "ok"
    /\ \E s \in ComposeServiceNames : StartedHere(s)

\* C20: a call of remove_compose_project or of remove_project leaves the set of volumes
\* as it was, whatever it does to the containers, the network and the proxy
\* configuration.
C20_RemoveKeepsVolumes ==
    [][loc'.op \in {"remove_compose_project", "remove_project"} => volumes' = volumes]_vars

\* remove_compose_project has removed a container and the network of the project, and
\* the labelled volume of the project is still there
C20_Witness ==
    /\ loc.op = "remove_compose_project"
    /\ result.status = "success"
    /\ \E i \in 1..Len(ops) : ops[i].call = "remove" /\ ops[i].out = "ok"
    /\ InList(Op("network.remove", ComposeNetwork, "", "ok"), ops)
    /\ NetworksNamed(ComposeNetwork) = {}
    /\ \E v \in volumes : v.label = ProjectLabel

\* remove_project has removed the container of a managed service whose volume is there
C20_WitnessRemoveProject ==
    /\ loc.op = "remove_project"
    /\ result.status = "success"
    /\ InList(Op("remove", AppContainer, "", "ok"), ops)
    /\ volumes # {}

C15_WitnessStop ==
    \E t, u \in Requests :
       /\ threads[t].op = "stop_project" /\ threads[t].old # 0
       /\ threads[t].last = "notfound" /\ threads[t].status = "success"
       /\ threads[u].op # "stop_project" /\ threads[u].pc \notin {"idle", "done"}

\* a step that is a call of stop_project which the runtime answered: the client was
\* obtained and no call failed
AnsweredStop ==
    /\ loc'.op = "stop_project"
    /\ \A i \in 1..Len(ops') : ops'[i].out # "error"

C21_WitnessStopped ==
    /\ loc.op = "stop_project"
    /\ InList(Op("stop", AppContainer, "", "ok"), ops)
    /\ result.status = "success"
    /\ containers[AppContainer] = "exited"

\* C22: every operation that has ended gave its caller a result (a structured success
\* or failure), whatever the input and whatever the runtime client or an external tool
\* did; none ended by raising.
C22_NoErrorEscapes == pc = "done" => result.kind = "return"

\* the part of C22 that the code keeps: what escapes is raised before the try of the
\* operation is entered (the runtime client that cannot be created, the unknown
\* service type); every failure after that is returned
C22_OnlyEarlyErrorsEscape ==
    (pc = "done" /\ result.kind = "raise")
        => \/ ops # <<>> /\ ops[Len(ops)] = Op("from_env", "docker", "", "error")
           \/ loc.op = "deploy_service" /\ get_template(loc.service_type) = "none"

\* the manifest is not valid YAML or has no services key
InvalidManifest == ~project.compose_file.yaml_ok \/ ~project.compose_file.has_services

ConfigWritten == loc.op = "write_config" /\ pc = "done" /\ result.status = "True"

\* C24: after a write_config that wrote the file, the file is what generate_config
\* gives for the project and the domain of that call, whatever the file held before;
\* it has a TLS block only when that domain has ssl_enabled, so a write for a domain
\* whose certificate was revoked leaves no TLS directive of an earlier write.
C24_RegenerationIsTotal ==
    ConfigWritten
        => /\ conf = generate_config(project, loc.domain)
           /\ conf.tls => (loc.domain # NoDomain /\ loc.domain.ssl_enabled)

\* the file had a TLS block, the certificate was revoked, and the configuration was
\* written again for the same domain
C24_Witness ==
    /\ ConfigWritten
    /\ loc.before.tls
    /\ loc.domain # NoDomain
    /\ ~loc.domain.ssl_enabled
    /\ ssl_call.op = "revoke"
    /\ ~conf.tls

\* the validation and the reload of the last operation both ran and exited with 0
ConfigApplied ==
    /\ InList(Op("exec_run", ProxyContainer, "nginx -t", "exit0"), ops)
    /\ InList(Op("exec_run", ProxyContainer, "nginx -s reload", "exit0"), ops)

\* C25: what write_config, delete_config and reload report tells an applied
\* configuration from one that was not applied: the operation reports success (True)
\* only when the syntax validation passed and the reload signal succeeded.
C25_SuccessMeansApplied ==
    (pc = "done" /\ loc.op \in {"write_config", "delete_config", "reload"} /\ result.status = "True")
        => ConfigApplied

\* the part of C25 that the code keeps: reload itself reports True only for an applied
\* configuration
C25_ReloadReportsApplied ==
    (pc = "done" /\ loc.op = "reload" /\ result.status = "True") => ConfigApplied

\* a step that is a request to the webhook (a detached task that runs takes a task off
\* the queue instead)
TriggerStep == loc'.op = "trigger_deploy" /\ Len(background_tasks') >= Len(background_tasks)

\* C26: a trigger with the project's token is acknowledged at once with a task queued,
\* and the queued deploy is eventually executed: the project gets to deploying or
\* building (and from there to running or failed); a trigger with a token of no project
\* queues nothing.
C26_WebhookDeployEventuallyRuns ==
    /\ [][(TriggerStep /\ loc'.token # webhook_token(project))
             => background_tasks' = background_tasks]_vars
    /\ (background_tasks # <<>>) ~> (project.status \in {"deploying", "building"})

\* the part of C26 that the code keeps: the acknowledgement and the queued task for a
\* valid token, 404 and nothing queued for an unknown one
C26_TriggerQueuesForValidTokenOnly ==
    [][TriggerStep
             => IF loc'.token = webhook_token(project)
                THEN result'.status = "deployment_queued"
                ELSE result'.status = "404" /\ background_tasks' = background_tasks]_vars
\* deploy_project is running: the dispatcher or the strategy it called has the control
InsideDispatcher == caller = "dispatcher" /\ pc \notin {"idle", "done"}

\* C27: no step of deploy_project or of a strategy it calls changes the project record
\* (status, build_logs, env_vars and the other stored fields).
C27_DispatcherLeavesProject ==
    [][InsideDispatcher => project' = project]_vars

\* the part of C27 that the code keeps: the image, Dockerfile and compose strategies
\* leave the project record alone
C27_ContainerStrategiesLeaveProject ==
    [][(InsideDispatcher /\ project.deployment_type \notin {"static_build", "service"})
         => project' = project]_vars

\* deploy_service has returned a success
ServiceSucceeded ==
    /\ loc.op = "deploy_service"
    /\ \/ caller = "direct" /\ pc = "done" /\ result.status = "success"
       \/ caller = "dispatcher" /\ pc \in {"d_return", "done"} /\ sret.status = "success"

\* the fields that the payload of each kind is to have
ListedFields(kind) ==
    CASE kind \in {"postgres", "mysql", "mongodb"} -> {"username", "password", "database", "connection_string"}
      [] kind = "redis" -> {"password", "connection_string"}
      [] kind = "minio" -> {"access_key", "secret_key", "endpoint", "console_url"}

PayloadKinds == {"postgres", "mysql", "mongodb", "redis", "minio"}

\* C28: when deploy_service succeeds for a service_type that the catalog lookup maps to
\* postgres, mysql, mongodb, redis or minio, whatever its spelling, the credentials of
\* the connection info have exactly the fields listed for that kind.
C28_ConnectionInfoByKind ==
    (ServiceSucceeded /\ get_template(loc.service_type) \in PayloadKinds)
        => loc.credentials = ListedFields(get_template(loc.service_type))

\* the part of C28 that the code keeps: the listed fields for postgres, mongodb, redis
\* and minio when the service_type is spelled in lower case
C28_LowerCaseKinds ==
    (ServiceSucceeded /\ loc.service_type \in PayloadKinds \ {"mysql"})
        => loc.credentials = ListedFields(loc.service_type)

\* C29: the order that a call of topological_sort returned for a dependency map is the
\* order that every call on that map returns, in whatever process: it does not depend
\* on the order in which the set of services is iterated.
C29_SortIsReproducible ==
    sort_result.called
        => \A iter \in Permutations_(AllServices(dependencies)) :
              /\ topological_sort(dependencies, iter).raised = sort_result.raised
              /\ topological_sort(dependencies, iter).order = sort_result.order

\* the part of C29 that the code keeps: the set of services returned, and whether the
\* call raises, do not depend on the iteration order
C29_SameServicesInEveryProcess ==
    sort_result.called
        => \A iter \in Permutations_(AllServices(dependencies)) :
              /\ topological_sort(dependencies, iter).raised = sort_result.raised
              /\ Range(topological_sort(dependencies, iter).order) = Range(sort_result.order)

\* the steps of build_static_site in their order, the teardown included
PipelineNo(o) ==
    IF o.call = "containers.run" /\ o.target = BuildContainer THEN 1
    ELSE IF StepNo(o) \in 1..4 THEN StepNo(o) + 1
    ELSE IF IsTeardownCall(o) THEN 6
    ELSE IF StepNo(o) = 5 THEN 7
    ELSE 0

\* the positions of the [SUCCESS] entry of a step in a build log
SuccessAt(logs, step) == {i \in 1..Len(logs) : logs[i] = Log("SUCCESS", step)}

\* build_static_site has returned success
BuildSucceeded == BuildReturned /\ BuildStatus = "success"

\* C30: build_static_site returns success only when the commands of fetch, install,
\* build and copy actually succeeded (each exited with status 0).
C30_SuccessMeansStepsSucceeded ==
    BuildSucceeded
        => \A i \in 1..Len(ops) : StepNo(ops[i]) \in 1..4 => ops[i].out = "exit0"

\* the part of C30 that the code keeps: a build that returned success went through
\* acquire, fetch, install, build, copy and teardown in that order, each once (the
\* teardown being a stop and a remove), called the proxy configuration last, and its
\* log has one [SUCCESS] entry for fetch, install, build and copy, in that order, and
\* no [ERROR] entry
C30_SuccessfulBuildInOrder ==
    BuildSucceeded
        => /\ \A i, j \in 1..Len(ops) :
                 (i < j /\ PipelineNo(ops[i]) # 0 /\ PipelineNo(ops[j]) # 0)
                     => PipelineNo(ops[i]) <= PipelineNo(ops[j])
           /\ \A n \in 1..5 : Cardinality({i \in 1..Len(ops) : PipelineNo(ops[i]) = n}) = 1
           /\ Cardinality({i \in 1..Len(ops) : PipelineNo(ops[i]) = 6}) = 2
           /\ \E i \in 1..Len(ops) : PipelineNo(ops[i]) = 7
           /\ \A s \in {"fetch", "install", "build", "copy"} : Cardinality(SuccessAt(loc.build_logs, s)) = 1
           /\ \A a \in SuccessAt(loc.build_logs, "fetch"), b \in SuccessAt(loc.build_logs, "install"),
                 c \in SuccessAt(loc.build_logs, "build"), d \in SuccessAt(loc.build_logs, "copy") :
                     a < b /\ b < c /\ c < d
           /\ \A i \in 1..Len(loc.build_logs) : loc.build_logs[i].tag # "ERROR"

\* C31: for every domain with an expiry, needs_renewal is true exactly when the time
\* remaining until ssl_expires_at is at most 30 days.
C31_NeedsRenewalWithinThirtyDays ==
    \A k \in 1..Len(domains) :
        domains[k].ssl_expires_at # NoTime
            => (needs_renewal(domains[k], now)
                  <=> domains[k].ssl_expires_at - now <= RenewalWindowDays * TicksPerDay)

\* C31, second half: for enabled domains needs_renewal agrees with the selection of
\* the auto-renew sweep
C31_AgreesWithSweep ==
    \A k \in 1..Len(domains) :
        domains[k].ssl_enabled
            => (needs_renewal(domains[k], now) <=> k \in ExpiringSoon(domains, now))

\* what the code computes instead: needs_renewal is true exactly when less than 31
\* days remain, so every domain the sweep selects needs renewal, not the converse
C31_NeedsRenewalUnderThirtyOneDays ==
    \A k \in 1..Len(domains) :
        /\ domains[k].ssl_expires_at # NoTime
              => (needs_renewal(domains[k], now)
                    <=> domains[k].ssl_expires_at - now < (NeedsRenewalDays + 1) * TicksPerDay)
        /\ k \in ExpiringSoon(domains, now) => needs_renewal(domains[k], now)

\* request t returns the success result of a deploy in this step
DeployReturnsSuccess(t) ==
    /\ threads[t].pc = "config"
    /\ threads'[t].pc = "done"
    /\ threads'[t].status = "success"

\* C32: with two concurrent deploy invocations for one project, an invocation that
\* returns status success with a container_id refers to a container that exists and
\* runs under the project's name at the moment the result is returned.
C32_ReportedContainerRuns ==
    [][\A t \in Requests :
          (DeployReturnsSuccess(t) /\ \A u \in Requests : threads[u].op # "stop_project")
              => /\ threads'[t].container \in Existing'
                 /\ instances'[threads'[t].container] = "running"]_vars

\* what the code keeps: the container a success result names was started by that
\* invocation, and was running when containers.run returned
C32_ReportedContainerWasStarted ==
    [][\A t \in Requests :
          /\ DeployReturnsSuccess(t) => threads'[t].container \in 1..Len(instances')
          /\ (threads[t].pc = "run" /\ threads'[t].pc = "config")
                => instances'[threads'[t].container] = "running"]_vars

\* the names under which a deployment of the project leaves containers running (the
\* build container of a static build is torn down by the build itself)
ProjectContainers == ContainerNames \ {ProxyContainer, BuildContainer}

\* DockerService.stop_project has returned status success
StopSucceeded ==
    /\ loc.op = "stop_project"
    /\ pc = "done"
    /\ result.kind = "return"
    /\ result.status = "success"

\* C33: after stop_project(project) returned status success, no container started by
\* deploying that project is still running, whatever the deployment type.
C33_StopLeavesNothingRunning ==
    StopSucceeded => \A n \in ProjectContainers : containers[n] # "running"

\* what the code keeps: after a successful stop_project the container named
\* auraops-app-<id> is not running
C33_StopStopsAppContainer ==
    StopSucceeded => containers[AppContainer] # "running"

\* C34: whenever the configuration file of a project has the proxy shape, its upstream
\* container name is a name under which deploy starts a container of that project.
C34_UpstreamIsDeployedName ==
    conf.shape = "proxy" => conf.target \in deploy_container_names(project)

\* what the code keeps: the upstream of every proxy-shaped configuration is
\* auraops-app-<id>, which is the deployed name for image and Dockerfile projects
C34_UpstreamIsAppName ==
    conf.shape = "proxy"
        => /\ conf.target = AppContainer
           /\ project.deployment_type \in {"docker_image", "dockerfile"}
                 => conf.target \in deploy_container_names(project)

\* request t, in its failure cleanup, stops or removes a container in this step
CleanupActs(t) ==
    /\ threads[t].pc \in {"b_xstop", "b_xremove"}
    /\ threads'[t] # threads[t]
    /\ instances' # instances

\* C35: with two concurrent build_static_site invocations for one project, the failure
\* cleanup of one invocation never stops or removes the build container that the other
\* invocation created and is still using.
C35_CleanupSparesOtherBuild ==
    [][\A t, u \in Requests :
          (t # u /\ CleanupActs(t))
              => ~(threads[u].pc \in UsingContainer /\ threads[u].container = threads[t].old)]_vars

\* what the code keeps: on its success path an invocation stops and removes only the
\* container it acquired
C35_SuccessPathTearsDownOwn ==
    [][\A t \in Requests :
          (threads[t].pc \in {"b_stop", "b_remove"} /\ instances' # instances /\ threads'[t] # threads[t])
              => \A i \in 1..Len(instances) : instances'[i] # instances[i] => i = threads[t].container]_vars

\* the name under which the running operation deploys the project's container
DeployedName == IF loc.op = "deploy_service" THEN ServiceContainer ELSE AppContainer

\* deploy_project ended with status failed on the image, Dockerfile or service path, for
\* a project whose container was running before the call
FailedOverRunning ==
    /\ DeployEnded
    /\ result.kind = "return" /\ result.status = "failed"
    /\ loc.op \in {"_deploy_docker_image", "_deploy_dockerfile", "deploy_service"}
    /\ loc.before = "running"

\* C36: if deploy_project (image, Dockerfile or service path) returns status failed for a
\* project that had a running container under its name before the call, that container
\* is still present and running after the call.
C36_FailedDeployKeepsPrevious ==
    FailedOverRunning => containers[DeployedName] = "running"

\* what the code keeps: a deploy that failed before it reached the old container (no
\* client, an unknown template, a failed image build, a failed stop) leaves it running
C36_EarlyFailureKeepsPrevious ==
    (FailedOverRunning /\ ~InList(Op("stop", DeployedName, "", "ok"), ops))
        => containers[DeployedName] = "running"

\* this step is a write_config for project q that wrote a file nginx accepts, and the
\* proxy answered the validation
WroteValidConfig(q) ==
    /\ loc'.op = "write_config" /\ loc'.project_id = q /\ loc'.accepted
    /\ ops' # <<>> /\ ops'[1] = Op("open", ConfPathOf(q), "w", "ok")
    /\ \E i \in 1..Len(ops') : IsValidation(ops'[i]) /\ ops'[i].out # "error"

\* C37: after write_config for a project left a file that failed validation, a later
\* write_config for another project whose own configuration is valid still passes
\* validation and is reloaded.
C37_BrokenConfigDoesNotBlockOthers ==
    [][\A q \in ProjectIds :
          (WroteValidConfig(q) /\ \E p \in ProjectIds \ {q} : conf_dir[p] = "broken")
              => /\ \E i \in 1..Len(ops') : IsValidation(ops'[i]) /\ ops'[i].out = "exit0"
                 /\ \E i \in 1..Len(ops') : IsReloadSignal(ops'[i])]_vars

\* what the code keeps: a write of a valid file into a directory whose other files are
\* valid passes validation and signals the reload
C37_ValidDirectoryPasses ==
    [][\A q \in ProjectIds :
          (WroteValidConfig(q) /\ \A p \in ProjectIds \ {q} : conf_dir[p] # "broken")
              => /\ \E i \in 1..Len(ops') : IsValidation(ops'[i]) /\ ops'[i].out = "exit0"
                 /\ \E i \in 1..Len(ops') : IsReloadSignal(ops'[i])]_vars

\* C38: no step of an invocation of deploy_compose_project on a manifest whose dependency
\* graph has a cycle changes the networks or the volumes of the runtime.
C38_CycleLeavesNetworksAndVolumes ==
    [][(loc'.op = "deploy_compose_project" /\ CyclicManifest)
          => UNCHANGED <<networks, volumes>>]_vars

\* what the code keeps: the network and the volumes are created before the deploy order
\* is computed, so a rejected manifest changes them only through those create calls
C38_OnlyCreateCallsBeforeOrder ==
    [][(loc'.op = "deploy_compose_project" /\ CyclicManifest /\ <<networks, volumes>>' # <<networks, volumes>>)
          => /\ pc \in {"c_network", "c_volumes"}
             /\ ops' # <<>>
             /\ ops'[Len(ops')].call \in {"networks.create", "volumes.create"}]_vars

\* C39: deploy_compose_project returns status success only if that invocation started at
\* least one service container of the project.
C39_SuccessMeansContainerStarted ==
    (ComposeReturned /\ ComposeStatus = "success")
        => \E i \in 1..Len(ops) :
              /\ ops[i].call = "containers.run"
              /\ ops[i].target \in {ComposeContainer(s) : s \in ComposeServiceNames}
              /\ ops[i].out = "ok"

\* what the code keeps: the deployed_services of a success result are exactly the
\* containers whose containers.run succeeded in that invocation, in that order
C39_DeployedServicesAreStarted ==
    (ComposeReturned /\ ComposeStatus = "success")
        => /\ \A i \in 1..Len(loc.deployed_containers) :
                 InList(Op("containers.run", loc.deployed_containers[i], ProjectLabel, "ok"), ops)
           /\ \A i \in 1..Len(ops) :
                 (ops[i].call = "containers.run" /\ ops[i].out = "ok")
                     => InList(ops[i].target, loc.deployed_containers)

\* the (kind, project id, name) of a resource or of the running operation
Triple(r) == <<r.kind, r.project_id, r.name>>

\* C40: for integer project ids, inside each runtime namespace two different (resource
\* kind, project id, service or volume name) triples never have the same name, so an
\* operation reaches only resources of its own triple, and the platform's proxy and
\* network are never reached by a project's operation.
C40_NamesAreCollisionFree ==
    /\ \A x, y \in namespace :
          (NamespaceOf(x.kind) = NamespaceOf(y.kind) /\ x.runtime = y.runtime) => Triple(x) = Triple(y)
    /\ \A k1, k2 \in ProjectKinds, i1, i2 \in IntegerIds :
          \A n1 \in NamesOfKind(k1), n2 \in NamesOfKind(k2) :
             (NamespaceOf(k1) = NamespaceOf(k2) /\ RuntimeName(k1, i1, n1) = RuntimeName(k2, i2, n2))
                 => <<k1, i1, n1>> = <<k2, i2, n2>>
    /\ loc.op \in {"deploy", "remove"} => \A x \in loc.touched : Triple(x) = Triple(loc)
    /\ PlatformResources \subseteq namespace

\* project 1 has a compose service named 2-a and project 12 has just deployed one named
\* -a: the two names differ only by where the separator falls, and both exist
C40_Witness ==
    /\ loc.op = "deploy"
    /\ Triple(loc) = <<"compose_service", 12, "-a">>
    /\ loc.touched = {}
    /\ Resource("compose_service", 1, "2-a") \in namespace
    /\ Resource("compose_service", 12, "-a") \in namespace

\* a redeploy replaced the container of its own triple
C40_WitnessReplace ==
    /\ loc.op = "deploy"
    /\ loc.kind = "app"
    /\ loc.touched = {Resource("app", loc.project_id, "")}
    /\ \E x \in namespace : x.kind = "app" /\ x.project_id # loc.project_id


====
